---------------------------- MODULE Spec2Model ----------------------------
(***************************************************************************)
(* Model of github_action_toolkit/signal_handling.py: the cancellation     *)
(* controller (handler registry, captured signal dispositions, enabled     *)
(* flag) together with the interpreter's delivery of SIGTERM / SIGINT to   *)
(* the main thread.                                                        *)
(*                                                                         *)
(* The main thread is a stack of frames.  The empty stack is application   *)
(* code between two calls of the toolkit.  An "enable" or "disable" frame  *)
(* is a call of enable_cancellation_support or                             *)
(* disable_cancellation_support, which runs one statement at a time.  A    *)
(* "deliver" frame is one activation of _handle_cancellation_signal, a     *)
(* "handler" frame is the body of a registered callback running inside the *)
(* try block of the delivery frame right below it.  A signal whose         *)
(* installed disposition is _handle_cancellation_signal may arrive at any  *)
(* point of the main flow, also while a frame is active: between two       *)
(* statements of enable or disable, before a delivery has emitted its      *)
(* notice, after a callback has returned and before the try block around  *)
(* its call is left, between the catching of a callback's exception and    *)
(* the warning about it.  Its frame is pushed on top of the frame it       *)
(* interrupts and an exception leaving it propagates into that frame.      *)
(*                                                                         *)
(* The module also models the parts of input_output.py and job_summary.py  *)
(* that write through os.environ: the with_env context manager, the        *)
(* command files behind set_output / save_state / set_env / to_env_file,   *)
(* and the job summary file.  Each part has its own specification over    *)
(* the same variables: Spec and SequentialSpec (controller), EnvSpec,      *)
(* OutputSpec and SummarySpec.  RoundTripSpec reads the GITHUB_ENV file    *)
(* back, DrainSpec and CallingSpec add callbacks that register callbacks   *)
(* or call the controller, BuilderSpec is the JobSummary buffer with its   *)
(* add_ methods and its write().                                           *)
(*                                                                         *)
(* A str written to a file is the sequence of its code points; the texts   *)
(* of the JobSummary buffer are sequences of runs of equal code points.    *)
(* Names of environment variables and paths are strings.                   *)
(***************************************************************************)
EXTENDS Integers, Sequences, FiniteSets, TLC

VARIABLES
    _cancellation_handlers,    \* the registry: list of callbacks (line 25)
    _original_handlers,        \* dict signal -> captured disposition (line 26)
    _cancellation_registered,  \* the enabled flag (line 27)
    disposition,               \* the runtime's signal table (signal.getsignal)
    stack,                     \* frames of the main thread, top is the last
    done,                      \* history: the deliveries the latest step finished
    arrived,                   \* history: deliveries since the application was interrupted
    preEnable,                 \* history: signal table seen by the last capturing enable
    last,                      \* history: the latest application-level call or delivery
    runs,                      \* history: invocations of each registry position since
                               \*   the latest application-level call
    deliveries,                \* history: deliveries since the latest application-level call
    previous,                  \* history: what `done` was when the latest of them arrived
    era,                       \* history: for each registry position, the session it
                               \*   was registered in
    environ,                   \* os.environ
    files,                     \* the file system: path -> content
    contexts,                  \* the active with_env() contexts, innermost last
    raising,                   \* the exception travelling through the with blocks
    call,                      \* history: the latest input_output / job_summary call
    journal,                   \* history: per path, the texts written by successful calls
    _buffer                    \* JobSummary._buffer of the application's summary builder

\* the cancellation controller and the main thread
controllerVars == <<_cancellation_handlers, _original_handlers, _cancellation_registered,
                    disposition, stack, done, arrived, preEnable, last>>

\* the counters of sequential deliveries
counterVars == <<runs, deliveries, previous, era>>

\* the process environment and the files of input_output.py / job_summary.py
ioVars == <<environ, files, contexts, raising, call, journal>>

\* the summary builder of job_summary.py
builderVars == <<_buffer>>

vars == <<controllerVars, counterVars, builderVars, ioVars>>

(***************************************************************************)
(* Bounds of the exploration.                                              *)
(***************************************************************************)
MaxHandlers == 2      \* longest registry the application builds by itself
MaxDeliveries == 2    \* deliveries between two application calls: one that interrupts
                      \* the application, the others arriving while it is handled
MaxSequential == 2    \* deliveries one after another between two application calls

(***************************************************************************)
(* Signals and dispositions.                                               *)
(***************************************************************************)
SIGINT == 2
SIGTERM == 15
Signals == {SIGTERM, SIGINT}

\* signal.Signals(signum).name
SignalName(signum) ==
    CASE signum = SIGTERM -> "SIGTERM"
      [] signum = SIGINT -> "SIGINT"

\* the controller's delivery handler as a disposition
_handle_cancellation_signal == "_handle_cancellation_signal"

\* What signal.getsignal / signal.signal can report for a handler the
\* controller did not install: the default action, ignored, another Python
\* callable, or None for a handler that was not installed from Python.
ForeignDispositions == {"SIG_DFL", "SIG_IGN", "callable", "None"}

EmptyDict == [s \in {} |-> "None"]

\* d[k] = v on a dict
DictSet(d, k, v) == [x \in (DOMAIN d) \cup {k} |-> IF x = k THEN v ELSE d[x]]

\* signal.signal(signalnum, handler): installs handler, returns the old one
SignalSignal(table, signalnum, handler) ==
    [old |-> table[signalnum],
     table |-> [table EXCEPT ![signalnum] = handler]]

\* The str a string of this module writes, as the sequence of its code
\* points: ord(c) for each character c.  The tables hold U+0020 to U+005F
\* and U+0061 to U+007E in order.
Str(s) ==
    LET upper == " !\"#$%&'()*+,-./0123456789:;<=>?@ABCDEFGHIJKLMNOPQRSTUVWXYZ[\\]^_"
        lower == "abcdefghijklmnopqrstuvwxyz{|}~"
        ord(c) ==
            CASE c = "\t" -> 9
              [] c = "\n" -> 10
              [] c = "\r" -> 13
              [] \E k \in 1..Len(upper) : SubSeq(upper, k, k) = c
                   -> 31 + (CHOOSE k \in 1..Len(upper) : SubSeq(upper, k, k) = c)
              [] \E k \in 1..Len(lower) : SubSeq(lower, k, k) = c
                   -> 96 + (CHOOSE k \in 1..Len(lower) : SubSeq(lower, k, k) = c)
    IN [k \in 1..Len(s) |-> ord(SubSeq(s, k, k))]

\* the str literals of input_output.py, print_messages.py and
\* _clean_markdown_string
Token ==
    [LF |-> Str("\n"), CR |-> Str("\r"), Percent |-> Str("%"),
     Colon |-> Str(":"), Comma |-> Str(","),
     Percent25 |-> Str("%25"), Percent0D |-> Str("%0D"), Percent0A |-> Str("%0A"),
     Percent3A |-> Str("%3A"), Percent2C |-> Str("%2C"),
     Heredoc |-> Str("<<")]

\* str.replace(old, new): every occurrence of old, from the left, none
\* overlapping
RECURSIVE Replace(_, _, _)
Replace(s, old, new) ==
    IF Len(s) < Len(old) THEN s
    ELSE IF SubSeq(s, 1, Len(old)) = old
         THEN new \o Replace(SubSeq(s, Len(old) + 1, Len(s)), old, new)
         ELSE SubSeq(s, 1, 1) \o Replace(SubSeq(s, 2, Len(s)), old, new)

(***************************************************************************)
(* Callbacks the application registers, by what their body does.           *)
(***************************************************************************)
Handlers == {"returns", "raisesError", "raisesExit"}

(***************************************************************************)
(* Exceptions: class, message, and the delivery that raised it.            *)
(***************************************************************************)
BaseOf(cls) ==
    CASE cls = "CancellationRequested" -> "Exception"
      [] cls = "GitHubActionError" -> "Exception"
      [] cls \in {"EnvironmentError", "InputError", "GitOperationError",
                  "GitHubAPIError", "ConfigurationError"} -> "GitHubActionError"
      [] cls \in {"RuntimeError", "KeyError", "OSError", "ValueError"} -> "Exception"
      [] cls = "FileNotFoundError" -> "OSError"
      [] cls = "Exception" -> "BaseException"
      [] cls = "SystemExit" -> "BaseException"
      [] OTHER -> "object"

\* the classes github_action_toolkit/exceptions.py defines
ExceptionsModule ==
    {"GitHubActionError", "EnvironmentError", "InputError", "GitOperationError",
     "GitHubAPIError", "ConfigurationError"}

RECURSIVE IsSubclass(_, _)
IsSubclass(cls, base) ==
    IF cls = base THEN TRUE
    ELSE IF cls = "object" THEN FALSE
    ELSE IsSubclass(BaseOf(cls), base)

\* the fault a callback's body ends with
HandlerFault(h) ==
    CASE h = "raisesError" -> [cls |-> "RuntimeError", msg |-> "Handler failed", id |-> 0]
      [] h = "raisesExit" -> [cls |-> "SystemExit", msg |-> "1", id |-> 0]

\* variant of CancellationMessage with the signal's name written out
CancellationMessageFixedName(signal_name) == "Operation cancelled by " \o "SIGTERM" \o " signal"

\* line 41: CancellationRequested(f"Operation cancelled by {signal_name} signal")
CancellationMessage(signal_name) == "Operation cancelled by " \o signal_name \o " signal"

\* line 33
ReceivedNotice(signal_name) ==
    "Received " \o signal_name \o " signal. Initiating graceful shutdown..."

\* line 39
HandlerWarning(e) == "Error in cancellation handler: " \o e.msg

(***************************************************************************)
(* The controller's module state as one record, and its three operations.  *)
(***************************************************************************)
Controller ==
    [handlers |-> _cancellation_handlers,
     original |-> _original_handlers,
     registered |-> _cancellation_registered,
     table |-> disposition]

\* register_cancellation_handler(handler)
register_cancellation_handler(c, handler) ==
    [c EXCEPT !.handlers = Append(c.handlers, handler)]

\* The frame of a call of enable_cancellation_support or
\* disable_cancellation_support: the statement it is at, the value
\* signal.signal returned that the call has not stored yet, and the call the
\* application made before this one.
CallFrame(kind, after) == [kind |-> kind, pc |-> 0, old |-> "-", after |-> after]

\* history: what the application did right before it makes a call, and
\* whether that ended with a CancellationRequested it caught
Before ==
    [call |-> last.call,
     enabled |-> last.enabled,
     raised |-> /\ stack = <<>>
                /\ done # <<>>
                /\ done[Len(done)].outcome = "raised"
                /\ done[Len(done)].fate = "application"]

\* the order in which the keys entered _original_handlers: lines 85, 86
InsertionOrder == <<SIGTERM, SIGINT>>

\* list(_original_handlers.items()), by key
ItemsOf(original) == SelectSeq(InsertionOrder, LAMBDA s : s \in DOMAIN original)

\* what one statement of a call leaves: the module state, the frame of the
\* call, and whether the call has returned
Goes(c, f) == [c |-> c, f |-> f, returns |-> FALSE]
Returns(c, f) == [c |-> c, f |-> f, returns |-> TRUE]

\* variant of enable_cancellation_support that installs and captures but
\* leaves the flag alone
enable_without_flag(c, f) ==
    CASE f.pc = 0 ->
           IF c.registered THEN Returns(c, f) ELSE Goes(c, [f EXCEPT !.pc = 1])
      [] f.pc \in {1, 3} ->
           LET signalnum == IF f.pc = 1 THEN SIGTERM ELSE SIGINT
               r == SignalSignal(c.table, signalnum, _handle_cancellation_signal)
           IN Goes([c EXCEPT !.table = r.table], [f EXCEPT !.pc = @ + 1, !.old = r.old])
      [] f.pc \in {2, 4} ->
           LET signalnum == IF f.pc = 2 THEN SIGTERM ELSE SIGINT
           IN Goes([c EXCEPT !.original = DictSet(@, signalnum, f.old)],
                   [f EXCEPT !.pc = @ + 1, !.old = "-"])
      [] OTHER ->
           Returns(c, f)

\* enable_cancellation_support(), one statement at a time.  pc 0 is the
\* guard of lines 82-83, pc 1 the signal.signal of line 85, pc 2 the store
\* of what it returned, pc 3 and 4 the same for line 86, pc 5 line 88.
enable_cancellation_support(c, f) ==
    CASE f.pc = 0 ->
           IF c.registered THEN Returns(c, f) ELSE Goes(c, [f EXCEPT !.pc = 1])
      [] f.pc \in {1, 3} ->
           LET signalnum == IF f.pc = 1 THEN SIGTERM ELSE SIGINT
               r == SignalSignal(c.table, signalnum, _handle_cancellation_signal)
           IN Goes([c EXCEPT !.table = r.table], [f EXCEPT !.pc = @ + 1, !.old = r.old])
      [] f.pc \in {2, 4} ->
           LET signalnum == IF f.pc = 2 THEN SIGTERM ELSE SIGINT
           IN Goes([c EXCEPT !.original = DictSet(@, signalnum, f.old)],
                   [f EXCEPT !.pc = @ + 1, !.old = "-"])
      [] OTHER ->
           Returns([c EXCEPT !.registered = TRUE], f)

\* one turn of the loop of lines 103-105: signal.signal for the captured
\* entry, unless its value is None
RestoreOne(table, sig, original_handler) ==
    IF original_handler # "None"
    THEN SignalSignal(table, sig, original_handler).table
    ELSE table

\* variant of disable_cancellation_support without line 107, the clearing of
\* the map
disable_keeping_captures(c, f) ==
    LET items == ItemsOf(c.original)
    IN CASE f.pc = 0 ->
              IF ~c.registered THEN Returns(c, f) ELSE Goes(c, [f EXCEPT !.pc = 1])
         [] f.pc \in 1..Len(items) ->
              Goes([c EXCEPT !.table = RestoreOne(@, items[f.pc], c.original[items[f.pc]])],
                   [f EXCEPT !.pc = @ + 1])
         [] OTHER ->
              Returns([c EXCEPT !.registered = FALSE], f)

\* variant of disable_cancellation_support with no early return, which falls
\* back to the default action for the signals it holds no capture of
disable_unguarded(c, f) ==
    LET items == ItemsOf(c.original)
    IN CASE f.pc = 0 ->
              Goes([c EXCEPT !.table = [s \in DOMAIN @ |->
                                          IF s \in DOMAIN c.original THEN @[s] ELSE "SIG_DFL"]],
                   [f EXCEPT !.pc = 1])
         [] f.pc \in 1..Len(items) ->
              Goes([c EXCEPT !.table = RestoreOne(@, items[f.pc], c.original[items[f.pc]])],
                   [f EXCEPT !.pc = @ + 1])
         [] f.pc = Len(items) + 1 ->
              Goes([c EXCEPT !.original = EmptyDict], [f EXCEPT !.pc = @ + 1])
         [] OTHER ->
              Returns([c EXCEPT !.registered = FALSE], f)

\* disable_cancellation_support(), one statement at a time.  pc 0 is the
\* guard of lines 100-101, pc 1.. one turn of the loop of lines 103-105 for
\* each item of the map, then line 107, then line 108.
disable_cancellation_support(c, f) ==
    LET items == ItemsOf(c.original)
    IN CASE f.pc = 0 ->
              IF ~c.registered THEN Returns(c, f) ELSE Goes(c, [f EXCEPT !.pc = 1])
         [] f.pc \in 1..Len(items) ->
              Goes([c EXCEPT !.table = RestoreOne(@, items[f.pc], c.original[items[f.pc]])],
                   [f EXCEPT !.pc = @ + 1])
         [] f.pc = Len(items) + 1 ->
              Goes([c EXCEPT !.original = EmptyDict], [f EXCEPT !.pc = @ + 1])
         [] OTHER ->
              Returns([c EXCEPT !.registered = FALSE], f)

\* is_cancellation_enabled()
is_cancellation_enabled == _cancellation_registered

\* the four module-level variables after an operation returned c
Store(c) ==
    /\ _cancellation_handlers' = c.handlers
    /\ _original_handlers' = c.original
    /\ _cancellation_registered' = c.registered
    /\ disposition' = c.table

(***************************************************************************)
(* Frames and events.                                                      *)
(***************************************************************************)
Event(e, pos, text) == [e |-> e, pos |-> pos, text |-> text]

\* The activation of _handle_cancellation_signal the interpreter has just
\* made (line 30).  pc is where the activation stands: "notice" before the
\* warning of line 33 has been emitted, "loop" at the for statement of line
\* 35 (and while the callback it called runs), "try" after the call of line
\* 37 returned and before the try block is left, "warn" in the except
\* clause of line 38 before the warning of line 39 has been emitted, with
\* the exception it caught.
DeliverFrame(id, signum) ==
    [kind |-> "deliver", id |-> id, signum |-> signum,
     name |-> SignalName(signum),
     pc |-> "notice",
     caught |-> "-",
     i |-> 0,
     h |-> "-",
     events |-> <<>>]

HandlerFrame(d, pos, h) ==
    [kind |-> "handler", id |-> d.id, signum |-> d.signum, name |-> d.name,
     i |-> pos, h |-> h, events |-> <<>>]

Top == stack[Len(stack)]
Below == SubSeq(stack, 1, Len(stack) - 1)

ReplaceTop(stk, f) == [stk EXCEPT ![Len(stk)] = f]

Active(kind) == {k \in 1..Len(stack) : stack[k].kind = kind}

\* deliveries are numbered in order of arrival, from the one that interrupted
\* application code
NextId == IF stack = <<>> THEN 1 ELSE arrived + 1

\* the record kept of a delivery when an exception leaves its frame
Finished(f, exc, fate) ==
    [id |-> f.id, signum |-> f.signum,
     events |-> f.events,
     outcome |-> IF exc.cls = "CancellationRequested" /\ exc.id = f.id
                 THEN "raised" ELSE "aborted",
     exc |-> exc,
     fate |-> fate]

\* An exception travels down the stack.  Leaving a callback body it arrives
\* in the try block of the delivery that invoked the callback (lines 36-38):
\* an instance of Exception is caught there, and the delivery stands in its
\* except clause, about to report it (line 39); anything else leaves that
\* delivery too.  Leaving a delivery frame it arrives in the frame the
\* signal interrupted.  If that is a delivery whose callback has returned
\* and which has not left its try block yet, line 38 catches an instance of
\* Exception there as well, although no callback failed; at any other point
\* of a delivery the exception leaves it.  A frame of
\* enable_cancellation_support or disable_cancellation_support has no try
\* block: the exception ends the call where it stands.  With no frame left
\* it has reached the application.
RECURSIVE Propagate(_, _, _)
Propagate(stk, exc, left) ==
    IF stk = <<>>
    THEN [stack |-> <<>>,
          done |-> [k \in 1..Len(left) |-> Finished(left[k], exc, "application")]]
    ELSE LET top == stk[Len(stk)]
             rest == SubSeq(stk, 1, Len(stk) - 1)
         IN IF top.kind = "handler"
            THEN LET d == rest[Len(rest)]
                 IN IF IsSubclass(exc.cls, "Exception")
                    THEN [stack |-> ReplaceTop(rest,
                                      [d EXCEPT !.events = Append(@, Event("fault", top.i, exc.cls)),
                                                !.pc = "warn",
                                                !.caught = exc]),
                          done |-> [k \in 1..Len(left) |-> Finished(left[k], exc, "isolated")]]
                    ELSE Propagate(ReplaceTop(rest,
                                      [d EXCEPT !.events =
                                          Append(@, Event("fault", top.i, exc.cls))]),
                                   exc, left)
            ELSE IF top.kind \in {"enable", "disable"}
                 THEN Propagate(rest, exc, left)
                 ELSE IF top.pc = "try" /\ IsSubclass(exc.cls, "Exception")
                      THEN [stack |-> ReplaceTop(stk,
                                        [top EXCEPT !.events = Append(@, Event("caught", top.i, exc.cls)),
                                                    !.pc = "warn",
                                                    !.caught = exc]),
                            done |-> [k \in 1..Len(left) |-> Finished(left[k], exc, "isolated")]]
                      ELSE Propagate(rest, exc, Append(left, top))

\* what `last` remembers: the call, and the enabled flag it found
Call(name) == [call |-> name, enabled |-> _cancellation_registered]

(***************************************************************************)
(* Initial state: module import.  The registry and the map are empty, the  *)
(* flag is false; the signal table holds whatever the process has.         *)
(***************************************************************************)
ControllerInit ==
    /\ _cancellation_handlers = <<>>
    /\ _original_handlers = EmptyDict
    /\ _cancellation_registered = FALSE
    /\ disposition \in [Signals -> ForeignDispositions]
    /\ stack = <<>>
    /\ done = <<>>
    /\ arrived = 0
    /\ preEnable = disposition
    /\ last = [call |-> "import", enabled |-> FALSE]

\* no invocation counted yet
CountersStart ==
    /\ runs = <<>>
    /\ deliveries = 0
    /\ previous = <<>>
    /\ era = <<>>

\* an optional value: os.environ.get(key) is None or a string, a path names
\* no file or a file with a content
Absent == <<>>
Some(v) == <<v>>

\* the environment variables and the paths of the model
EnvNames == {"X", "Y", "GITHUB_OUTPUT", "GITHUB_STATE", "GITHUB_ENV", "GITHUB_STEP_SUMMARY"}
Paths == {"/f1", "/f2"}

NoCall == [op |-> "none", args |-> <<>>, result |-> "ok"]

\* a process with none of the variables set and none of the files written
IoStart ==
    /\ environ = [n \in EnvNames |-> Absent]
    /\ files = [p \in Paths |-> Absent]
    /\ contexts = <<>>
    /\ raising = Absent
    /\ call = NoCall
    /\ journal = [p \in Paths |-> <<>>]

\* JobSummary.__init__, line 74
BuilderStart == _buffer = <<>>

Init ==
    /\ ControllerInit
    /\ CountersStart
    /\ BuilderStart
    /\ IoStart

(***************************************************************************)
(* Application-level calls (the main flow is in application code).         *)
(***************************************************************************)
Register(h) ==
    /\ stack = <<>>
    /\ Len(_cancellation_handlers) < MaxHandlers
    /\ Store(register_cancellation_handler(Controller, h))
    /\ last' = Call("register")
    /\ done' = <<>>
    /\ UNCHANGED <<stack, arrived, preEnable>>

\* The application calls enable_cancellation_support(): the guard of lines
\* 82-83.  The call returns at once if the flag is set.
BeginEnable ==
    /\ stack = <<>>
    /\ LET r == enable_cancellation_support(Controller, CallFrame("enable", Before))
       IN /\ Store(r.c)
          /\ stack' = IF r.returns THEN <<>> ELSE <<r.f>>
    /\ preEnable' = IF _cancellation_registered THEN preEnable ELSE disposition
    /\ arrived' = 0
    /\ last' = Call("enable")
    /\ done' = <<>>

\* the next statement of a call of enable_cancellation_support: lines 85-88
EnableStep ==
    /\ stack # <<>>
    /\ Top.kind = "enable"
    /\ LET r == enable_cancellation_support(Controller, Top)
       IN /\ Store(r.c)
          /\ stack' = IF r.returns THEN Below ELSE ReplaceTop(stack, r.f)
    /\ done' = <<>>
    /\ UNCHANGED <<arrived, preEnable, last>>

\* The application calls disable_cancellation_support(): the guard of lines
\* 100-101.  The call returns at once if the flag is clear.
BeginDisable ==
    /\ stack = <<>>
    /\ LET r == disable_cancellation_support(Controller, CallFrame("disable", Before))
       IN /\ Store(r.c)
          /\ stack' = IF r.returns THEN <<>> ELSE <<r.f>>
    /\ arrived' = 0
    /\ last' = Call("disable")
    /\ done' = <<>>
    /\ UNCHANGED preEnable

\* the next statement of a call of disable_cancellation_support: lines
\* 103-108
DisableStep ==
    /\ stack # <<>>
    /\ Top.kind = "disable"
    /\ LET r == disable_cancellation_support(Controller, Top)
       IN /\ Store(r.c)
          /\ stack' = IF r.returns THEN Below ELSE ReplaceTop(stack, r.f)
    /\ done' = <<>>
    /\ UNCHANGED <<arrived, preEnable, last>>

(***************************************************************************)
(* Signal delivery: _handle_cancellation_signal(signum, frame).  The       *)
(* interpreter runs the handler between two bytecodes of the main thread,  *)
(* wherever that thread stands: in application code, in a statement of     *)
(* enable or disable, in a callback, or in an earlier activation of the    *)
(* handler itself.                                                         *)
(***************************************************************************)
\* the interpreter calls the installed Python handler: line 30
Deliver(signum) ==
    /\ disposition[signum] = _handle_cancellation_signal
    /\ NextId <= MaxDeliveries
    /\ stack' = Append(stack, DeliverFrame(NextId, signum))
    /\ arrived' = NextId
    /\ done' = <<>>
    /\ last' = IF stack = <<>> THEN Call("deliver") ELSE last
    /\ UNCHANGED <<_cancellation_handlers, _original_handlers, _cancellation_registered,
                   disposition, preEnable>>

\* lines 32-33: the notice of the delivery reaches the sink
Notice ==
    /\ stack # <<>>
    /\ Top.kind = "deliver"
    /\ Top.pc = "notice"
    /\ stack' = ReplaceTop(stack,
                   [Top EXCEPT !.pc = "loop",
                               !.events = Append(@, Event("sink", 0, ReceivedNotice(Top.name)))])
    /\ done' = <<>>
    /\ UNCHANGED <<_cancellation_handlers, _original_handlers, _cancellation_registered,
                   disposition, arrived, preEnable, last>>

\* line 39: the warning about the exception the try block caught
Warn ==
    /\ stack # <<>>
    /\ Top.kind = "deliver"
    /\ Top.pc = "warn"
    /\ stack' = ReplaceTop(stack,
                   [Top EXCEPT !.pc = "loop",
                               !.caught = "-",
                               !.events = Append(@, Event("sink", Top.i, HandlerWarning(Top.caught)))])
    /\ done' = <<>>
    /\ UNCHANGED <<_cancellation_handlers, _original_handlers, _cancellation_registered,
                   disposition, arrived, preEnable, last>>

\* the element the list iterator of line 35 yields after it yielded i elements
NextHandler(handlers, i) == handlers[i + 1]

\* lines 35-37: the for loop takes the next element of the list and calls it
Invoke ==
    /\ stack # <<>>
    /\ Top.kind = "deliver"
    /\ Top.pc = "loop"
    /\ Top.i < Len(_cancellation_handlers)
    /\ LET h == NextHandler(_cancellation_handlers, Top.i)
           d == [Top EXCEPT !.i = @ + 1,
                            !.events = Append(@, Event("invoke", Top.i + 1, h))]
       IN stack' = Append(ReplaceTop(stack, d), HandlerFrame(d, Top.i + 1, h))
    /\ done' = <<>>
    /\ UNCHANGED <<_cancellation_handlers, _original_handlers, _cancellation_registered,
                   disposition, arrived, preEnable, last>>

\* the frame of the delivery after its running callback returned: the
\* call of line 37 is over, the try block is not left yet
Returned ==
    ReplaceTop(Below, [Below[Len(Below)] EXCEPT !.pc = "try",
                                                !.events = Append(@ \o Top.events,
                                                                  Event("return", Top.i, Top.h))])

\* The try block of lines 36-37 is left after the callback returned, and
\* the loop goes on to its next turn.  For a callback that is not a Python
\* function the interpreter looks for pending signals right after the call,
\* before this step.
LeaveTry ==
    /\ stack # <<>>
    /\ Top.kind = "deliver"
    /\ Top.pc = "try"
    /\ stack' = ReplaceTop(stack, [Top EXCEPT !.pc = "loop"])
    /\ done' = <<>>
    /\ UNCHANGED <<_cancellation_handlers, _original_handlers, _cancellation_registered,
                   disposition, arrived, preEnable, last>>

\* a callback body that returns
HandlerReturns ==
    /\ stack # <<>>
    /\ Top.kind = "handler"
    /\ Top.h = "returns"
    /\ stack' = Returned
    /\ done' = <<>>
    /\ UNCHANGED <<_cancellation_handlers, _original_handlers, _cancellation_registered,
                   disposition, arrived, preEnable, last>>

\* a callback body that raises; line 38 or propagation
HandlerRaises ==
    /\ stack # <<>>
    /\ Top.kind = "handler"
    /\ Top.h \in {"raisesError", "raisesExit"}
    /\ LET r == Propagate(stack, HandlerFault(Top.h), <<>>)
       IN /\ stack' = r.stack
          /\ done' = r.done
    /\ UNCHANGED <<_cancellation_handlers, _original_handlers, _cancellation_registered,
                   disposition, arrived, preEnable, last>>

\* line 41: the list is exhausted, raise CancellationRequested
RaiseCancellation ==
    /\ stack # <<>>
    /\ Top.kind = "deliver"
    /\ Top.pc = "loop"
    /\ Top.i >= Len(_cancellation_handlers)
    /\ LET exc == [cls |-> "CancellationRequested",
                   msg |-> CancellationMessage(Top.name),
                   id |-> Top.id]
           d == [Top EXCEPT !.events = Append(@, Event("raise", 0, exc.msg))]
           r == Propagate(ReplaceTop(stack, d), exc, <<>>)
       IN /\ stack' = r.stack
          /\ done' = r.done
    /\ UNCHANGED <<_cancellation_handlers, _original_handlers, _cancellation_registered,
                   disposition, arrived, preEnable, last>>

\* the steps of the controller leave everything else alone
Next ==
    \/ \E h \in Handlers : Register(h) /\ UNCHANGED <<counterVars, builderVars, ioVars>>
    \/ BeginEnable /\ UNCHANGED <<counterVars, builderVars, ioVars>>
    \/ EnableStep /\ UNCHANGED <<counterVars, builderVars, ioVars>>
    \/ BeginDisable /\ UNCHANGED <<counterVars, builderVars, ioVars>>
    \/ DisableStep /\ UNCHANGED <<counterVars, builderVars, ioVars>>
    \/ \E signum \in Signals : Deliver(signum) /\ UNCHANGED <<counterVars, builderVars, ioVars>>
    \/ Notice /\ UNCHANGED <<counterVars, builderVars, ioVars>>
    \/ Invoke /\ UNCHANGED <<counterVars, builderVars, ioVars>>
    \/ HandlerReturns /\ UNCHANGED <<counterVars, builderVars, ioVars>>
    \/ LeaveTry /\ UNCHANGED <<counterVars, builderVars, ioVars>>
    \/ HandlerRaises /\ UNCHANGED <<counterVars, builderVars, ioVars>>
    \/ Warn /\ UNCHANGED <<counterVars, builderVars, ioVars>>
    \/ RaiseCancellation /\ UNCHANGED <<counterVars, builderVars, ioVars>>

Spec == Init /\ [][Next]_vars

(***************************************************************************)
(* Deliveries one after another.  The same controller, with signals that   *)
(* arrive only while application code runs, between two calls, so that     *)
(* every call and every delivery is over before the next one starts.  runs *)
(* counts the invocations of each registry position and deliveries the     *)
(* deliveries, both since the latest call the application made.            *)
(***************************************************************************)
\* one counter per registry position, none invoked
NoRuns(handlers) == [p \in 1..Len(handlers) |-> 0]

\* era has, for each registry position, the session the callback was
\* registered in: "none" (while Disabled), "current" (the enabled session
\* in progress) or "earlier" (an enabled session that is over)
SeqRegister(h) ==
    /\ Register(h)
    /\ runs' = NoRuns(_cancellation_handlers')
    /\ deliveries' = 0
    /\ previous' = <<>>
    /\ era' = Append(era, IF _cancellation_registered THEN "current" ELSE "none")
    /\ UNCHANGED <<builderVars, ioVars>>

SeqBeginEnable ==
    /\ BeginEnable
    /\ runs' = NoRuns(_cancellation_handlers')
    /\ deliveries' = 0
    /\ previous' = <<>>
    /\ UNCHANGED <<era, builderVars, ioVars>>

SeqBeginDisable ==
    /\ BeginDisable
    /\ runs' = NoRuns(_cancellation_handlers')
    /\ deliveries' = 0
    /\ previous' = <<>>
    /\ UNCHANGED <<era, builderVars, ioVars>>

\* a statement of disable_cancellation_support(); line 108 ends the
\* enabled session
SeqDisableStep ==
    /\ DisableStep
    /\ era' = IF _cancellation_registered /\ ~_cancellation_registered'
              THEN [p \in 1..Len(era) |-> IF era[p] = "current" THEN "earlier" ELSE era[p]]
              ELSE era
    /\ UNCHANGED <<runs, deliveries, previous, builderVars, ioVars>>

SeqDeliver(signum) ==
    /\ stack = <<>>
    /\ deliveries < MaxSequential
    /\ Deliver(signum)
    /\ deliveries' = deliveries + 1
    /\ previous' = done
    /\ UNCHANGED <<runs, era, builderVars, ioVars>>

SeqInvoke ==
    /\ Invoke
    /\ runs' = [runs EXCEPT ![Top.i + 1] = @ + 1]
    /\ UNCHANGED <<deliveries, previous, era, builderVars, ioVars>>

SequentialNext ==
    \/ \E h \in Handlers : SeqRegister(h)
    \/ SeqBeginEnable
    \/ EnableStep /\ UNCHANGED <<counterVars, builderVars, ioVars>>
    \/ SeqBeginDisable
    \/ SeqDisableStep
    \/ \E signum \in Signals : SeqDeliver(signum)
    \/ Notice /\ UNCHANGED <<counterVars, builderVars, ioVars>>
    \/ SeqInvoke
    \/ HandlerReturns /\ UNCHANGED <<counterVars, builderVars, ioVars>>
    \/ LeaveTry /\ UNCHANGED <<counterVars, builderVars, ioVars>>
    \/ HandlerRaises /\ UNCHANGED <<counterVars, builderVars, ioVars>>
    \/ Warn /\ UNCHANGED <<counterVars, builderVars, ioVars>>
    \/ RaiseCancellation /\ UNCHANGED <<counterVars, builderVars, ioVars>>

SequentialSpec == Init /\ [][SequentialNext]_vars

(***************************************************************************)
(* input_output.py: with_env, a context manager that sets the environment  *)
(* variables it is given for the time of a with block.  The body of the    *)
(* block is application code: it may set or delete any variable, open a    *)
(* nested with_env block, leave the block normally, or raise (an exception *)
(* of its own, or the CancellationRequested of a signal delivered while it *)
(* runs).                                                                  *)
(***************************************************************************)
MaxDepth == 2       \* with_env blocks open at the same time

\* the variables and values the application uses with with_env
ScopedNames == {"X", "Y"}
ScopedValues == {"", "a"}

\* the keyword arguments of the with_env calls the application makes
EnvVarChoices ==
    {[n \in {"X"} |-> "a"],
     [n \in {"X", "Y"} |-> IF n = "X" THEN "" ELSE "a"],
     [n \in {"Y"} |-> ""]}

\* os.environ[key] = value for every key of a dict
SetAll(env, env_vars) ==
    [n \in DOMAIN env |-> IF n \in DOMAIN env_vars THEN Some(env_vars[n]) ELSE env[n]]

\* lines 246-249: original_values[key] = os.environ.get(key)
CaptureOriginals(env, env_vars) == [key \in DOMAIN env_vars |-> env[key]]

\* variant of RestoreOriginals that tests `if not original_value`
RestoreOriginalsIfTruthy(env, original_values) ==
    [n \in DOMAIN env |->
        IF n \in DOMAIN original_values
        THEN IF original_values[n] \in {Absent, Some("")}
             THEN Absent
             ELSE original_values[n]
        ELSE env[n]]

\* lines 255-260: the finally block
RestoreOriginals(env, original_values) ==
    [n \in DOMAIN env |->
        IF n \in DOMAIN original_values
        THEN IF original_values[n] = Absent
             THEN Absent                    \* os.environ.pop(key, None)
             ELSE original_values[n]        \* os.environ[key] = original_value
        ELSE env[n]]

\* what `call` remembers of a with block that ended: the variables it
\* named, whether its body left one of them with another value than the
\* given one, and how the body ended
ExitCall(c, how) ==
    [op |-> "with_env",
     args |-> <<DOMAIN c.env_vars,
                \E n \in DOMAIN c.env_vars : environ[n] # Some(c.env_vars[n])>>,
     result |-> how]

\* entering the block: lines 246-253, up to the yield
EnterWithEnv(env_vars) ==
    /\ raising = Absent
    /\ Len(contexts) < MaxDepth
    /\ contexts' = Append(contexts,
                      [env_vars |-> env_vars,
                       original_values |-> CaptureOriginals(environ, env_vars),
                       before |-> [n \in DOMAIN env_vars |-> environ[n]]])
    /\ environ' = SetAll(environ, env_vars)
    /\ UNCHANGED <<files, raising, call, journal>>

\* application code: os.environ[n] = v
BodySets(n, v) ==
    /\ raising = Absent
    /\ environ' = [environ EXCEPT ![n] = Some(v)]
    /\ UNCHANGED <<files, contexts, raising, call, journal>>

\* application code: os.environ.pop(n, None)
BodyDeletes(n) ==
    /\ raising = Absent
    /\ environ' = [environ EXCEPT ![n] = Absent]
    /\ UNCHANGED <<files, contexts, raising, call, journal>>

\* the body of the innermost block raises
BodyRaises(cls) ==
    /\ raising = Absent
    /\ contexts # <<>>
    /\ raising' = Some(cls)
    /\ UNCHANGED <<environ, files, contexts, call, journal>>

\* the innermost block ends, normally or with the exception thrown into the
\* generator at its yield: the finally block runs, the exception goes on
ExitWithEnv ==
    /\ contexts # <<>>
    /\ LET c == contexts[Len(contexts)]
       IN /\ environ' = RestoreOriginals(environ, c.original_values)
          /\ call' = ExitCall(c, IF raising = Absent THEN "ok" ELSE raising[1])
    /\ contexts' = SubSeq(contexts, 1, Len(contexts) - 1)
    /\ UNCHANGED <<files, raising, journal>>

\* an except clause of the application catches the exception
Catch ==
    /\ raising # Absent
    /\ raising' = Absent
    /\ UNCHANGED <<environ, files, contexts, call, journal>>

\* A Python process that changed no signal disposition and made no call of
\* the controller: SIGTERM has the default action, SIGINT has the callable
\* the interpreter installs at start-up (signal.default_int_handler).
IoInit ==
    /\ ControllerInit
    /\ disposition = [s \in Signals |-> IF s = SIGINT THEN "callable" ELSE "SIG_DFL"]
    /\ CountersStart
    /\ BuilderStart
    /\ IoStart

EnvNext ==
    \/ \E env_vars \in EnvVarChoices :
          EnterWithEnv(env_vars) /\ UNCHANGED <<controllerVars, counterVars, builderVars>>
    \/ \E n \in ScopedNames, v \in ScopedValues :
          BodySets(n, v) /\ UNCHANGED <<controllerVars, counterVars, builderVars>>
    \/ \E n \in ScopedNames : BodyDeletes(n) /\ UNCHANGED <<controllerVars, counterVars, builderVars>>
    \/ \E cls \in {"CancellationRequested", "ValueError"} :
          BodyRaises(cls) /\ UNCHANGED <<controllerVars, counterVars, builderVars>>
    \/ ExitWithEnv /\ UNCHANGED <<controllerVars, counterVars, builderVars>>
    \/ Catch /\ UNCHANGED <<controllerVars, counterVars, builderVars>>

EnvSpec == IoInit /\ [][EnvNext]_vars

(***************************************************************************)
(* input_output.py: set_output, save_state and set_env, which write one    *)
(* record to the file named by GITHUB_OUTPUT, GITHUB_STATE or GITHUB_ENV,  *)
(* and to_env_file, which writes one record for each entry of a dict to    *)
(* the file it is given or to the file GITHUB_ENV names.  The application  *)
(* may set and unset these variables between the calls.                    *)
(***************************************************************************)
MaxRecords == 2     \* records the application writes

\* consts.ACTION_ENV_DELIMITER, as the expected bytes of
\* test__build_file_input show it
ACTION_ENV_DELIMITER == Str("__ENV_DELIMITER__")

\* print_messages.escape_data: the percent-encoding that
\* _clean_markdown_string of job_summary.py decodes
escape_data(data) ==
    Replace(Replace(Replace(data, Token.Percent, Token.Percent25), Token.CR, Token.Percent0D), Token.LF, Token.Percent0A)

\* print_messages.escape_property
escape_property(data) ==
    Replace(Replace(escape_data(data), Token.Colon, Token.Percent3A), Token.Comma, Token.Percent2C)

\* lines 15-21
_build_file_input(name, value) ==
    escape_property(name) \o Token.Heredoc \o ACTION_ENV_DELIMITER \o Token.LF
       \o escape_data(value) \o Token.LF
       \o ACTION_ENV_DELIMITER \o Token.LF

\* the content of a file that may not exist yet, as appending sees it
ContentOf(file) == IF file = Absent THEN <<>> ELSE file[1]

\* variant of AppendToFile that opens the file with mode "wb"
AppendToFileTruncating(fs, path, data) == [fs EXCEPT ![path] = Some(data)]

\* with open(path, "ab") as f: f.write(data)
AppendToFile(fs, path, data) == [fs EXCEPT ![path] = Some(ContentOf(@) \o data)]

\* the body the three functions share: lines 117-124, 155-163, 217-226
WriteCommandFile(env, fs, variable, name, value) ==
    IF env[variable] \in {Absent, Some("")}          \* if not output_file
    THEN [files |-> fs, result |-> "EnvironmentError"]
    ELSE [files |-> AppendToFile(fs, env[variable][1], _build_file_input(name, value)),
          result |-> "ok"]

set_output(env, fs, name, value) == WriteCommandFile(env, fs, "GITHUB_OUTPUT", name, value)
save_state(env, fs, name, value) == WriteCommandFile(env, fs, "GITHUB_STATE", name, value)
set_env(env, fs, name, value) == WriteCommandFile(env, fs, "GITHUB_ENV", name, value)

\* the records of the items of a dict, in the order of the dict
RECURSIVE BuildFileInputs(_)
BuildFileInputs(items) ==
    IF items = <<>> THEN <<>>
    ELSE _build_file_input(items[1][1], items[1][2]) \o BuildFileInputs(Tail(items))

\* to_env_file(env_vars, file_path), lines 263-292: env_vars as its items,
\* file_path None or a path.  The file is opened before the loop over the
\* items, so an empty dict creates it.
to_env_file(env, fs, env_vars, file_path) ==
    IF file_path = Absent /\ env["GITHUB_ENV"] \in {Absent, Some("")}   \* if not env_file
    THEN [files |-> fs, result |-> "EnvironmentError", target |-> ""]
    ELSE LET target_path == IF file_path = Absent THEN env["GITHUB_ENV"][1] ELSE file_path[1]
         IN [files |-> AppendToFile(fs, target_path, BuildFileInputs(env_vars)),
             result |-> "ok",
             target |-> target_path]

\* the three functions, the variable each reads, and the arguments of the
\* calls the application makes (those of test_set_output)
CommandFunctions == {"set_output", "save_state", "set_env"}
CommandVariables == {"GITHUB_OUTPUT", "GITHUB_STATE", "GITHUB_ENV"}
VariableOf(op) ==
    CASE op = "set_output" -> "GITHUB_OUTPUT"
      [] op = "save_state" -> "GITHUB_STATE"
      [] op = "set_env" -> "GITHUB_ENV"
CommandArguments == {<<Str("test"), Str("test")>>, <<Str("another"), Str("2")>>}

\* records written so far
Written == Len(journal["/f1"]) + Len(journal["/f2"])

\* one call of set_output, save_state or set_env
CallCommandFunction(op, name, value) ==
    /\ raising = Absent
    /\ LET r == CASE op = "set_output" -> set_output(environ, files, name, value)
                   [] op = "save_state" -> save_state(environ, files, name, value)
                   [] op = "set_env" -> set_env(environ, files, name, value)
       IN /\ r.result = "ok" => Written < MaxRecords
          /\ files' = r.files
          /\ call' = [op |-> op, args |-> <<name, value>>, result |-> r.result]
          /\ journal' = IF r.result = "ok"
                        THEN [journal EXCEPT ![environ[VariableOf(op)][1]] =
                                                Append(@, <<name, value>>)]
                        ELSE journal
    /\ UNCHANGED <<environ, contexts, raising>>

\* the dicts the application passes to to_env_file: empty, one item, two
\* items with different names, the shorter name first
EnvVarsOf(arguments) ==
    {<<>>} \cup {<<a>> : a \in arguments}
       \cup {items \in arguments \X arguments : Len(items[1][1]) < Len(items[2][1])}

\* one call of to_env_file
CallToEnvFile(env_vars, file_path) ==
    /\ raising = Absent
    /\ LET r == to_env_file(environ, files, env_vars, file_path)
       IN /\ r.result = "ok" => Written + Len(env_vars) <= MaxRecords
          /\ files' = r.files
          /\ call' = [op |-> "to_env_file", args |-> <<env_vars, file_path>>, result |-> r.result]
          /\ journal' = IF r.result = "ok"
                        THEN [journal EXCEPT ![r.target] = @ \o env_vars]
                        ELSE journal
    /\ UNCHANGED <<environ, contexts, raising>>

OutputNext ==
    \/ \E op \in CommandFunctions, a \in CommandArguments :
          CallCommandFunction(op, a[1], a[2]) /\ UNCHANGED <<controllerVars, counterVars, builderVars>>
    \/ \E env_vars \in EnvVarsOf(CommandArguments), file_path \in {Absent, Some("/f2")} :
          CallToEnvFile(env_vars, file_path) /\ UNCHANGED <<controllerVars, counterVars, builderVars>>
    \/ \E n \in CommandVariables, v \in {""} \cup Paths :
          BodySets(n, v) /\ UNCHANGED <<controllerVars, counterVars, builderVars>>
    \/ \E n \in CommandVariables : BodyDeletes(n) /\ UNCHANGED <<controllerVars, counterVars, builderVars>>

OutputSpec == IoInit /\ [][OutputNext]_vars

(***************************************************************************)
(* job_summary.py: append_job_summary, overwrite_job_summary and           *)
(* remove_job_summary, which work on the file GITHUB_STEP_SUMMARY names.   *)
(***************************************************************************)
MaxLines == 2       \* texts the summary files hold together

\* lines 13-20
_clean_markdown_string(markdown_string) ==
    Replace(Replace(Replace(markdown_string, Token.Percent25, Token.Percent), Token.Percent0D, Token.CR), Token.Percent0A, Token.LF)

\* with open(path, "w") as f: f.write(data)
WriteToFile(fs, path, data) == [fs EXCEPT ![path] = Some(data)]

\* os.environ["GITHUB_STEP_SUMMARY"] raises KeyError for a missing variable,
\* open() raises FileNotFoundError for the empty path
OpenSummary(env) ==
    IF env["GITHUB_STEP_SUMMARY"] = Absent THEN "KeyError"
    ELSE IF env["GITHUB_STEP_SUMMARY"][1] = "" THEN "FileNotFoundError"
    ELSE "ok"

\* lines 33-41
append_job_summary(env, fs, markdown_text) ==
    IF OpenSummary(env) # "ok"
    THEN [files |-> fs, result |-> OpenSummary(env)]
    ELSE [files |-> AppendToFile(fs, env["GITHUB_STEP_SUMMARY"][1],
                                 _clean_markdown_string(markdown_text) \o Token.LF),
          result |-> "ok"]

\* variant of overwrite_job_summary that opens the file with mode "a"
overwrite_job_summary_appending(env, fs, markdown_text) ==
    append_job_summary(env, fs, markdown_text)

\* lines 44-52
overwrite_job_summary(env, fs, markdown_text) ==
    IF OpenSummary(env) # "ok"
    THEN [files |-> fs, result |-> OpenSummary(env)]
    ELSE [files |-> WriteToFile(fs, env["GITHUB_STEP_SUMMARY"][1],
                                _clean_markdown_string(markdown_text) \o Token.LF),
          result |-> "ok"]

\* lines 55-64: os.remove, with KeyError and FileNotFoundError swallowed
remove_job_summary(env, fs) ==
    IF OpenSummary(env) # "ok"
    THEN [files |-> fs, result |-> "ok"]
    ELSE IF fs[env["GITHUB_STEP_SUMMARY"][1]] = Absent
         THEN [files |-> fs, result |-> "ok"]
         ELSE [files |-> [fs EXCEPT ![env["GITHUB_STEP_SUMMARY"][1]] = Absent],
               result |-> "ok"]

\* the texts the application writes: plain, and with the three sequences
\* that _clean_markdown_string replaces
SummaryTexts == {Str("- Point 1"), Str("100%25"), Str("a%0Db%0A")}

\* the file the variable names, if it names one
SummaryPath == IF OpenSummary(environ) = "ok" THEN environ["GITHUB_STEP_SUMMARY"] ELSE Absent

\* the journal after a successful call: an append adds its text to the
\* texts of the file, an overwrite starts them anew, a remove ends them
Journalled(op, text) ==
    IF SummaryPath = Absent THEN journal
    ELSE [journal EXCEPT ![SummaryPath[1]] =
             CASE op = "append_job_summary" -> Append(@, text)
               [] op = "overwrite_job_summary" -> <<text>>
               [] op = "remove_job_summary" -> <<>>]

\* append_job_summary(text) or overwrite_job_summary(text)
CallSummaryFunction(op, text) ==
    /\ raising = Absent
    /\ LET r == CASE op = "append_job_summary" -> append_job_summary(environ, files, text)
                   [] op = "overwrite_job_summary" -> overwrite_job_summary(environ, files, text)
       IN /\ files' = r.files
          /\ call' = [op |-> op, args |-> <<text>>, result |-> r.result]
          /\ journal' = IF r.result = "ok" THEN Journalled(op, text) ELSE journal
    /\ Len(journal'["/f1"]) + Len(journal'["/f2"]) <= MaxLines
    /\ UNCHANGED <<environ, contexts, raising>>

\* remove_job_summary()
CallRemoveSummary ==
    /\ raising = Absent
    /\ LET r == remove_job_summary(environ, files)
       IN /\ files' = r.files
          /\ call' = [op |-> "remove_job_summary", args |-> <<>>, result |-> r.result]
          /\ journal' = Journalled("remove_job_summary", <<>>)
    /\ UNCHANGED <<environ, contexts, raising>>

SummaryNext ==
    \/ \E op \in {"append_job_summary", "overwrite_job_summary"}, text \in SummaryTexts :
          CallSummaryFunction(op, text) /\ UNCHANGED <<controllerVars, counterVars, builderVars>>
    \/ CallRemoveSummary /\ UNCHANGED <<controllerVars, counterVars, builderVars>>
    \/ \E v \in {""} \cup Paths :
          BodySets("GITHUB_STEP_SUMMARY", v) /\ UNCHANGED <<controllerVars, counterVars, builderVars>>
    \/ BodyDeletes("GITHUB_STEP_SUMMARY") /\ UNCHANGED <<controllerVars, counterVars, builderVars>>

SummarySpec == IoInit /\ [][SummaryNext]_vars

(***************************************************************************)
(* input_output.py: get_workflow_environment_variables, which reads back   *)
(* the file set_env and to_env_file write.                                 *)
(***************************************************************************)
\* the position of the first occurrence of sub in s, 0 if there is none
Find(s, sub) ==
    LET hits == {k \in 1..(Len(s) - Len(sub) + 1) : SubSeq(s, k, k + Len(sub) - 1) = sub}
    IN IF hits = {} THEN 0 ELSE CHOOSE k \in hits : \A j \in hits : k <= j

\* iterating a file opened with "rb": the lines, each with its "\n"
RECURSIVE FileLines(_)
FileLines(s) ==
    IF s = <<>> THEN <<>>
    ELSE LET k == Find(s, Token.LF)
         IN IF k = 0 THEN <<s>>
            ELSE <<SubSeq(s, 1, k)>> \o FileLines(SubSeq(s, k + 1, Len(s)))

\* The characters str.strip() removes from a str, those for which
\* str.isspace() is true: U+0009 to U+000D, U+001C to U+0020, U+0085,
\* U+00A0, U+1680, U+2000 to U+200A, U+2028, U+2029, U+202F, U+205F and
\* U+3000.
Whitespace ==
    (9..13) \cup (28..32) \cup {133, 160, 5760} \cup (8192..8202)
       \cup {8232, 8233, 8239, 8287, 12288}

RECURSIVE LStrip(_)
LStrip(s) ==
    IF s # <<>> /\ s[1] \in Whitespace THEN LStrip(Tail(s)) ELSE s

RECURSIVE RStrip(_)
RStrip(s) ==
    IF s # <<>> /\ s[Len(s)] \in Whitespace
    THEN RStrip(SubSeq(s, 1, Len(s) - 1))
    ELSE s

\* str.strip()
Strip(s) == LStrip(RStrip(s))

\* s.split("<<")[0]
BeforeFirst(s, sep) ==
    LET k == Find(s, sep) IN IF k = 0 THEN s ELSE SubSeq(s, 1, k - 1)

\* lines 183-195: the loop over the lines from line i on, the dict so far
\* in d; a line holding the marker names a variable and the line after it,
\* taken with next(file), is its value
RECURSIVE ReadRecords(_, _, _)
ReadRecords(lines, i, d) ==
    IF i > Len(lines) THEN d
    ELSE IF Find(lines[i], Token.Heredoc \o ACTION_ENV_DELIMITER) # 0
         THEN IF i + 1 > Len(lines)
              THEN d                                      \* StopIteration: break
              ELSE ReadRecords(lines, i + 2,
                               DictSet(d, BeforeFirst(Strip(lines[i]), Token.Heredoc),
                                       Strip(lines[i + 1])))
         ELSE ReadRecords(lines, i + 1, d)

\* a dict of strings with no key
NoVariables == [n \in {} |-> <<>>]

\* get_workflow_environment_variables(), lines 166-196
get_workflow_environment_variables(env, fs) ==
    IF env["GITHUB_ENV"] \in {Absent, Some("")}           \* if not env_file
    THEN [result |-> "EnvironmentError", value |-> NoVariables]
    ELSE IF fs[env["GITHUB_ENV"][1]] = Absent             \* open(env_file, "rb")
         THEN [result |-> "FileNotFoundError", value |-> NoVariables]
         ELSE [result |-> "ok",
               value |-> ReadRecords(FileLines(fs[env["GITHUB_ENV"][1]][1]), 1, NoVariables)]

\* the calls of set_env the application makes: those of
\* test_get_workflow_environment_variables, a value with a space in front,
\* values with a form feed (U+000C) and with an em space (U+2003) at their
\* end, and a value with a percent sign
RoundTripArguments ==
    {<<Str("test"), Str("test")>>, <<Str("another"), Str("2")>>,
     <<Str("test"), Str(" a")>>, <<Str("test"), Str("a") \o <<12>>>>,
     <<Str("test"), Str("a") \o <<8195>>>>, <<Str("another"), Str("100%")>>}

\* one call of get_workflow_environment_variables
CallGetWorkflowEnvironmentVariables ==
    /\ raising = Absent
    /\ LET r == get_workflow_environment_variables(environ, files)
       IN call' = [op |-> "get_workflow_environment_variables", args |-> <<>>,
                   result |-> r.result, value |-> r.value,
                   file |-> IF r.result = "ok" THEN environ["GITHUB_ENV"][1] ELSE ""]
    /\ UNCHANGED <<environ, files, contexts, raising, journal>>

RoundTripNext ==
    \/ \E a \in RoundTripArguments :
          CallCommandFunction("set_env", a[1], a[2]) /\ UNCHANGED <<controllerVars, counterVars, builderVars>>
    \/ \E env_vars \in EnvVarsOf(RoundTripArguments), file_path \in {Absent, Some("/f2")} :
          CallToEnvFile(env_vars, file_path) /\ UNCHANGED <<controllerVars, counterVars, builderVars>>
    \/ CallGetWorkflowEnvironmentVariables /\ UNCHANGED <<controllerVars, counterVars, builderVars>>
    \/ \E v \in {""} \cup Paths :
          BodySets("GITHUB_ENV", v) /\ UNCHANGED <<controllerVars, counterVars, builderVars>>
    \/ BodyDeletes("GITHUB_ENV") /\ UNCHANGED <<controllerVars, counterVars, builderVars>>

RoundTripSpec == IoInit /\ [][RoundTripNext]_vars

(***************************************************************************)
(* Callbacks that call register_cancellation_handler.  Line 35 iterates    *)
(* over the list itself, so the loop also yields what is appended while it *)
(* runs.  Signals arrive only while application code runs.                 *)
(***************************************************************************)
\* a callback that registers a plain callback and returns, and a callback
\* that registers itself and returns
RegisteringHandlers == {"registersReturns", "registersSelf"}

\* the callback the body of h passes to register_cancellation_handler
Registered(h) == IF h = "registersSelf" THEN "registersSelf" ELSE "returns"

\* The longest registry the exploration follows.  A drain starts with at
\* most MaxHandlers entries, and a drain that ends appends at most one
\* entry for each of them: only a drain that does not end reaches this
\* length, and the exploration follows it no further.
MaxRegistry == 2 * MaxHandlers

\* a signal that arrives while application code runs
DrainDeliver(signum) ==
    /\ stack = <<>>
    /\ Len(_cancellation_handlers) <= MaxHandlers
    /\ Deliver(signum)

\* A callback body calls register_cancellation_handler (line 59): the
\* callback it passes is appended to the list the loop of line 35 iterates
\* over.  The body remembers that it has made its call; the event of the
\* registration has the position the callback took in the registry.
HandlerRegisters ==
    /\ stack # <<>>
    /\ Top.kind = "handler"
    /\ Top.h \in RegisteringHandlers
    /\ Top.events = <<>>
    /\ Len(_cancellation_handlers) < MaxRegistry
    /\ LET c == register_cancellation_handler(Controller, Registered(Top.h))
       IN /\ _cancellation_handlers' = c.handlers
          /\ stack' = ReplaceTop(stack,
                          [Top EXCEPT !.events =
                              <<Event("register", Len(c.handlers), Registered(Top.h))>>])
    /\ done' = <<>>
    /\ UNCHANGED <<_original_handlers, _cancellation_registered, disposition,
                   arrived, preEnable, last>>

\* the callback body returns after the call it made
HandlerReturnsFromCall ==
    /\ stack # <<>>
    /\ Top.kind = "handler"
    /\ Top.events # <<>>
    /\ stack' = Returned
    /\ done' = <<>>
    /\ UNCHANGED <<_cancellation_handlers, _original_handlers, _cancellation_registered,
                   disposition, arrived, preEnable, last>>

\* the steps of a delivery in progress
DrainStep ==
    \/ Notice /\ UNCHANGED <<counterVars, builderVars, ioVars>>
    \/ Invoke /\ UNCHANGED <<counterVars, builderVars, ioVars>>
    \/ HandlerReturns /\ UNCHANGED <<counterVars, builderVars, ioVars>>
    \/ LeaveTry /\ UNCHANGED <<counterVars, builderVars, ioVars>>
    \/ HandlerRaises /\ UNCHANGED <<counterVars, builderVars, ioVars>>
    \/ HandlerRegisters /\ UNCHANGED <<counterVars, builderVars, ioVars>>
    \/ HandlerReturnsFromCall /\ UNCHANGED <<counterVars, builderVars, ioVars>>
    \/ Warn /\ UNCHANGED <<counterVars, builderVars, ioVars>>
    \/ RaiseCancellation /\ UNCHANGED <<counterVars, builderVars, ioVars>>

DrainNext ==
    \/ \E h \in Handlers \cup RegisteringHandlers :
          Register(h) /\ UNCHANGED <<counterVars, builderVars, ioVars>>
    \/ BeginEnable /\ UNCHANGED <<counterVars, builderVars, ioVars>>
    \/ EnableStep /\ UNCHANGED <<counterVars, builderVars, ioVars>>
    \/ BeginDisable /\ UNCHANGED <<counterVars, builderVars, ioVars>>
    \/ DisableStep /\ UNCHANGED <<counterVars, builderVars, ioVars>>
    \/ \E signum \in Signals : DrainDeliver(signum) /\ UNCHANGED <<counterVars, builderVars, ioVars>>
    \/ DrainStep

\* The interpreter does not stop inside a delivery: the handler was called
\* synchronously, and every callback of the model returns or raises after
\* at most one call.  The application may stop calling at any time.
DrainSpec == IoInit /\ [][DrainNext]_vars /\ WF_vars(DrainStep)

(***************************************************************************)
(* Callbacks that call the controller: disable_cancellation_support() or   *)
(* enable_cancellation_support() from inside a drain.  Signals arrive only *)
(* while application code runs.                                            *)
(***************************************************************************)
CallingHandlers == {"callsDisable", "callsEnable"}

\* a signal that arrives while application code runs
CallingDeliver(signum) ==
    /\ stack = <<>>
    /\ Deliver(signum)

\* what a callback body calls
Called(h) == IF h = "callsDisable" THEN "disable" ELSE "enable"

\* A callback body calls disable_cancellation_support() or
\* enable_cancellation_support(): the guard of the call.  The body
\* remembers that it has made its call.
HandlerCallsController ==
    /\ stack # <<>>
    /\ Top.kind = "handler"
    /\ Top.h \in CallingHandlers
    /\ Top.events = <<>>
    /\ LET f == CallFrame(Called(Top.h), Before)
           r == IF Top.h = "callsDisable"
                THEN disable_cancellation_support(Controller, f)
                ELSE enable_cancellation_support(Controller, f)
           body == [Top EXCEPT !.events = <<Event(Called(Top.h), Top.i, Top.h)>>]
       IN /\ Store(r.c)
          /\ stack' = IF r.returns
                       THEN ReplaceTop(stack, body)
                       ELSE Append(ReplaceTop(stack, body), r.f)
    /\ preEnable' = IF Top.h = "callsEnable" /\ ~_cancellation_registered
                    THEN disposition
                    ELSE preEnable
    /\ done' = <<>>
    /\ UNCHANGED <<arrived, last>>

CallingNext ==
    \/ \E h \in Handlers \cup CallingHandlers :
          Register(h) /\ UNCHANGED <<counterVars, builderVars, ioVars>>
    \/ BeginEnable /\ UNCHANGED <<counterVars, builderVars, ioVars>>
    \/ EnableStep /\ UNCHANGED <<counterVars, builderVars, ioVars>>
    \/ BeginDisable /\ UNCHANGED <<counterVars, builderVars, ioVars>>
    \/ DisableStep /\ UNCHANGED <<counterVars, builderVars, ioVars>>
    \/ \E signum \in Signals : CallingDeliver(signum) /\ UNCHANGED <<counterVars, builderVars, ioVars>>
    \/ Notice /\ UNCHANGED <<counterVars, builderVars, ioVars>>
    \/ Invoke /\ UNCHANGED <<counterVars, builderVars, ioVars>>
    \/ HandlerReturns /\ UNCHANGED <<counterVars, builderVars, ioVars>>
    \/ LeaveTry /\ UNCHANGED <<counterVars, builderVars, ioVars>>
    \/ HandlerRaises /\ UNCHANGED <<counterVars, builderVars, ioVars>>
    \/ HandlerCallsController /\ UNCHANGED <<counterVars, builderVars, ioVars>>
    \/ HandlerReturnsFromCall /\ UNCHANGED <<counterVars, builderVars, ioVars>>
    \/ Warn /\ UNCHANGED <<counterVars, builderVars, ioVars>>
    \/ RaiseCancellation /\ UNCHANGED <<counterVars, builderVars, ioVars>>

CallingSpec == Init /\ [][CallingNext]_vars

(***************************************************************************)
(* job_summary.py: the JobSummary builder.  The add_ methods and clear     *)
(* work on the buffer, write() puts the buffer into the file               *)
(* GITHUB_STEP_SUMMARY names.  A text is held as its runs of equal         *)
(* characters, so that a text of one MiB is a single run.                  *)
(***************************************************************************)
MaxPieces == 1      \* a call adds to a buffer that holds fewer pieces than this
MaxWrites == 2      \* successful calls of write() on one file

\* line 10
MAX_SUMMARY_SIZE == 1024 * 1024

\* the empty string
EmptyText == <<>>

\* s + t
Concat(s, t) ==
    IF s = EmptyText THEN t
    ELSE IF t = EmptyText THEN s
    ELSE IF s[Len(s)].c = t[1].c
         THEN SubSeq(s, 1, Len(s) - 1)
                 \o <<[c |-> t[1].c, n |-> s[Len(s)].n + t[1].n]>>
                 \o SubSeq(t, 2, Len(t))
         ELSE s \o t

\* the text of a str: its runs of equal code points
RECURSIVE Text(_)
Text(s) ==
    IF s = <<>> THEN EmptyText ELSE Concat(<<[c |-> s[1], n |-> 1]>>, Text(Tail(s)))

\* the parts of an f-string, one after the other
RECURSIVE Join(_)
Join(parts) == IF parts = <<>> THEN EmptyText ELSE Concat(parts[1], Join(Tail(parts)))

\* str(n) of a natural number
RECURSIVE Decimal(_)
Decimal(n) == IF n < 10 THEN <<48 + n>> ELSE Decimal(n \div 10) \o <<48 + (n % 10)>>

\* len(c.encode("utf-8")) of a character that is no surrogate
Utf8Width(c) ==
    IF c < 128 THEN 1
    ELSE IF c < 2048 THEN 2
    ELSE IF c < 65536 THEN 3
    ELSE 4

\* len(content.encode("utf-8")): the bytes of the runs, added up by halves
EncodedLength(s) ==
    LET RECURSIVE EncodedRuns(_, _)
        EncodedRuns(lo, hi) ==
            IF lo > hi THEN 0
            ELSE IF lo = hi THEN Utf8Width(s[lo].c) * s[lo].n
            ELSE LET mid == (lo + hi) \div 2
                 IN EncodedRuns(lo, mid) + EncodedRuns(mid + 1, hi)
    IN EncodedRuns(1, Len(s))

\* the entities of html.escape and the literal parts of the f-strings of
\* lines 99-253
Literal ==
    [AmpEntity |-> Text(Str("&amp;")),
     LtEntity |-> Text(Str("&lt;")),
     GtEntity |-> Text(Str("&gt;")),
     Eol |-> Text(Str("\n")),
     TagOpen |-> Text(Str("<")),
     TagClose |-> Text(Str(">")),
     EndTagOpen |-> Text(Str("</")),
     TagCloseEol |-> Text(Str(">\n")),
     DoubleQuote |-> Text(Str("\"")),
     LetterH |-> Text(Str("h")),
     Separator |-> Text(Str("<hr>\n")),
     Break |-> Text(Str("<br>\n")),
     BlockquoteOpen |-> Text(Str("<blockquote")),
     BlockquoteClose |-> Text(Str("</blockquote>\n")),
     CiteAttr |-> Text(Str(" cite=\"")),
     LinkOpen |-> Text(Str("<a href=\"")),
     LinkMiddle |-> Text(Str("\">")),
     LinkClose |-> Text(Str("</a>")),
     PreOpen |-> Text(Str("<pre")),
     LangAttr |-> Text(Str(" lang=\"")),
     CodeOpen |-> Text(Str("><code>")),
     CodeClose |-> Text(Str("</code></pre>\n")),
     OrderedTag |-> Text(Str("ol")),
     UnorderedTag |-> Text(Str("ul")),
     ItemOpen |-> Text(Str("<li>")),
     ItemClose |-> Text(Str("</li>\n")),
     TableOpen |-> Text(Str("<table>\n")),
     TableClose |-> Text(Str("</table>\n")),
     RowOpen |-> Text(Str("<tr>\n")),
     RowClose |-> Text(Str("</tr>\n")),
     HeaderTag |-> Text(Str("th")),
     DataTag |-> Text(Str("td")),
     ColspanAttr |-> Text(Str(" colspan=\"")),
     RowspanAttr |-> Text(Str(" rowspan=\"")),
     DetailsOpen |-> Text(Str("<details>\n")),
     DetailsClose |-> Text(Str("</details>\n")),
     SummaryOpen |-> Text(Str("<summary>")),
     SummaryClose |-> Text(Str("</summary>\n")),
     SrcAttr |-> Text(Str("src=\"")),
     AltAttr |-> Text(Str("\" alt=\"")),
     WidthAttr |-> Text(Str(" width=\"")),
     HeightAttr |-> Text(Str(" height=\"")),
     ImgOpen |-> Text(Str("<img "))]

\* _sanitize_content(content), lines 23-30: html.escape(str(content),
\* quote=False) replaces every "&", "<" and ">" by its entity
RECURSIVE _sanitize_content(_)
_sanitize_content(content) ==
    LET RECURSIVE Times(_, _)
        Times(t, n) == IF n = 0 THEN EmptyText ELSE Concat(t, Times(t, n - 1))
    IN IF content = EmptyText THEN EmptyText
       ELSE Concat(CASE content[1].c = 38 -> Times(Literal.AmpEntity, content[1].n)
                     [] content[1].c = 60 -> Times(Literal.LtEntity, content[1].n)
                     [] content[1].c = 62 -> Times(Literal.GtEntity, content[1].n)
                     [] OTHER -> <<content[1]>>,
                   _sanitize_content(Tail(content)))

\* JobSummary.add_raw(text, add_eol), lines 78-90
add_raw(buffer, text, eol) ==
    IF eol
    THEN Append(Append(buffer, text), Literal.Eol)
    ELSE Append(buffer, text)

\* JobSummary.add_eol(), lines 91-97
add_eol(buffer) == add_raw(buffer, Literal.Eol, FALSE)

\* JobSummary.add_heading(text, level), lines 99-111
add_heading(buffer, text, level) ==
    LET tag == Concat(Literal.LetterH, Text(Decimal(IF level < 1 \/ level > 6 THEN 1 ELSE level)))
    IN Append(buffer, Join(<<Literal.TagOpen, tag, Literal.TagClose, _sanitize_content(text),
                             Literal.EndTagOpen, tag, Literal.TagCloseEol>>))

\* JobSummary.add_separator(), lines 113-120
add_separator(buffer) == Append(buffer, Literal.Separator)

\* JobSummary.add_break(), lines 122-129
add_break(buffer) == Append(buffer, Literal.Break)

\* JobSummary.add_quote(text, cite), lines 131-141
add_quote(buffer, text, cite) ==
    LET cite_attr == IF cite # Absent /\ cite[1] # EmptyText          \* if cite
                     THEN Join(<<Literal.CiteAttr, _sanitize_content(cite[1]), Literal.DoubleQuote>>)
                     ELSE EmptyText
    IN Append(buffer, Join(<<Literal.BlockquoteOpen, cite_attr, Literal.TagClose, _sanitize_content(text),
                             Literal.BlockquoteClose>>))

\* JobSummary.add_link(text, href), lines 143-152
add_link(buffer, text, href) ==
    Append(buffer, Join(<<Literal.LinkOpen, _sanitize_content(href), Literal.LinkMiddle,
                          _sanitize_content(text), Literal.LinkClose>>))

\* JobSummary.add_code_block(code, lang), lines 154-164
add_code_block(buffer, code, lang) ==
    LET lang_attr == IF lang # Absent /\ lang[1] # EmptyText          \* if lang
                     THEN Join(<<Literal.LangAttr, _sanitize_content(lang[1]), Literal.DoubleQuote>>)
                     ELSE EmptyText
    IN Append(buffer, Join(<<Literal.PreOpen, lang_attr, Literal.CodeOpen, _sanitize_content(code),
                             Literal.CodeClose>>))

\* JobSummary.add_list(items, ordered), lines 166-179
add_list(buffer, items, ordered) ==
    LET tag == IF ordered THEN Literal.OrderedTag ELSE Literal.UnorderedTag
    IN (Append(buffer, Join(<<Literal.TagOpen, tag, Literal.TagCloseEol>>))
          \o [k \in 1..Len(items) |->
                 Join(<<Literal.ItemOpen, _sanitize_content(items[k]), Literal.ItemClose>>)])
       \o <<Join(<<Literal.EndTagOpen, tag, Literal.TagCloseEol>>)>>

\* JobSummary.add_table(rows), lines 181-219.  A cell is a str
\* ([kind |-> "str", data |-> text]) or a dict whose keys "data", "header",
\* "colspan" and "rowspan" may be missing.  Cell is what one cell of row idx
\* (from 0) adds, lines 199-215; Row is one turn of the loop of line 196.
add_table(buffer, rows) ==
    LET Cell(cell, idx) ==
            IF cell.kind = "dict"
            THEN LET data == IF cell.data = Absent THEN EmptyText ELSE cell.data[1]
                     is_header == IF cell.header = Absent THEN idx = 0 ELSE cell.header[1]
                     tag == IF is_header THEN Literal.HeaderTag ELSE Literal.DataTag
                     attrs ==
                         Concat(IF cell.colspan # Absent /\ cell.colspan[1] # 0   \* if colspan
                                THEN Join(<<Literal.ColspanAttr, Text(Decimal(cell.colspan[1])),
                                            Literal.DoubleQuote>>)
                                ELSE EmptyText,
                                IF cell.rowspan # Absent /\ cell.rowspan[1] # 0   \* if rowspan
                                THEN Join(<<Literal.RowspanAttr, Text(Decimal(cell.rowspan[1])),
                                            Literal.DoubleQuote>>)
                                ELSE EmptyText)
                 IN Join(<<Literal.TagOpen, tag, attrs, Literal.TagClose,
                           _sanitize_content(data),
                           Literal.EndTagOpen, tag, Literal.TagCloseEol>>)
            ELSE LET tag == IF idx = 0 THEN Literal.HeaderTag ELSE Literal.DataTag
                 IN Join(<<Literal.TagOpen, tag, Literal.TagClose,
                           _sanitize_content(cell.data),
                           Literal.EndTagOpen, tag, Literal.TagCloseEol>>)
        Row(idx) ==
            (<<Literal.RowOpen>>
               \o [c \in 1..Len(rows[idx + 1]) |-> Cell(rows[idx + 1][c], idx)])
            \o <<Literal.RowClose>>
        RECURSIVE Rows(_)
        Rows(idx) == IF idx = Len(rows) THEN <<>> ELSE Row(idx) \o Rows(idx + 1)
    IN IF rows = <<>> THEN buffer                            \* if not rows
       ELSE (Append(buffer, Literal.TableOpen) \o Rows(0)) \o <<Literal.TableClose>>

\* JobSummary.add_details(label, content), lines 221-233
add_details(buffer, label, content) ==
    buffer \o <<Literal.DetailsOpen,
                Join(<<Literal.SummaryOpen, _sanitize_content(label), Literal.SummaryClose>>),
                Concat(_sanitize_content(content), Literal.Eol),
                Literal.DetailsClose>>

\* JobSummary.add_image(src, alt, width, height), lines 235-253
add_image(buffer, src, alt, width, height) ==
    LET attrs == Join(<<Literal.SrcAttr, _sanitize_content(src), Literal.AltAttr, _sanitize_content(alt),
                        Literal.DoubleQuote,
                        IF width # Absent /\ width[1] # EmptyText       \* if width
                        THEN Join(<<Literal.WidthAttr, _sanitize_content(width[1]), Literal.DoubleQuote>>)
                        ELSE EmptyText,
                        IF height # Absent /\ height[1] # EmptyText     \* if height
                        THEN Join(<<Literal.HeightAttr, _sanitize_content(height[1]), Literal.DoubleQuote>>)
                        ELSE EmptyText>>)
    IN Append(buffer, Join(<<Literal.ImgOpen, attrs, Literal.TagCloseEol>>))

\* JobSummary.clear(), lines 255-262
clear(buffer) == <<>>

\* JobSummary.stringify(), lines 264-270: "".join(self._buffer)
RECURSIVE stringify(_)
stringify(buffer) ==
    IF buffer = <<>> THEN EmptyText ELSE Concat(buffer[1], stringify(Tail(buffer)))

\* JobSummary.is_empty(), lines 272-278
is_empty(buffer) == Len(buffer) = 0

\* the text of a file that opening with mode "a" creates if it is missing
TextOf(file) == IF file = Absent THEN EmptyText ELSE file[1]

\* variant of write that clears the buffer before it looks at the
\* environment
write_clearing_first(buffer, env, fs, overwrite) ==
    LET content == stringify(buffer)
    IN IF EncodedLength(content) > MAX_SUMMARY_SIZE
       THEN [buffer |-> buffer, files |-> fs, result |-> "ValueError"]
       ELSE IF env["GITHUB_STEP_SUMMARY"] \in {Absent, Some("")}
            THEN [buffer |-> <<>>, files |-> fs, result |-> "ValueError"]
            ELSE LET summary_file == env["GITHUB_STEP_SUMMARY"][1]
                 IN [buffer |-> <<>>,
                     files |-> [fs EXCEPT ![summary_file] =
                                   IF overwrite
                                   THEN Some(content)
                                   ELSE Some(Concat(TextOf(@), content))],
                     result |-> "ok"]

\* JobSummary.write(overwrite), lines 280-306
write(buffer, env, fs, overwrite) ==
    LET content == stringify(buffer)
    IN IF EncodedLength(content) > MAX_SUMMARY_SIZE
       THEN [buffer |-> buffer, files |-> fs, result |-> "ValueError"]
       ELSE IF env["GITHUB_STEP_SUMMARY"] \in {Absent, Some("")}   \* if not summary_file
            THEN [buffer |-> buffer, files |-> fs, result |-> "ValueError"]
            ELSE LET summary_file == env["GITHUB_STEP_SUMMARY"][1]
                 IN [buffer |-> <<>>,
                     files |-> [fs EXCEPT ![summary_file] =
                                   IF overwrite
                                   THEN Some(content)                       \* write_text
                                   ELSE Some(Concat(TextOf(@), content))],  \* open("a")
                     result |-> "ok"]

\* The texts the application passes to add_raw: one character of one byte,
\* and one MiB of "e" with an acute accent (U+00E9, two bytes in UTF-8).
BuilderTexts == {Text(Str("a")), <<[c |-> 233, n |-> MAX_SUMMARY_SIZE \div 2]>>}

\* The other arguments the application passes: a text of one character, a
\* text with the three characters html.escape replaces, and the rows of
\* add_table: none; a header row and a row made of a str and of dicts.
Arguments ==
    [a |-> Text(Str("a")),
     markup |-> Text(Str("<a&b>")),
     rows |->
        {<<>>,
         <<<<[kind |-> "str", data |-> Text(Str("a"))]>>,
           <<[kind |-> "str", data |-> Text(Str("a"))],
             [kind |-> "dict", data |-> Some(Text(Str("<a&b>"))), header |-> Some(TRUE),
              colspan |-> Some(12), rowspan |-> Some(0)],
             [kind |-> "dict", data |-> Absent, header |-> Absent,
              colspan |-> Absent, rowspan |-> Some(2)]>>>>}]

\* one call of the add_ method op, which leaves the buffer as given
Adds(op, buffer) ==
    /\ Len(_buffer) < MaxPieces
    /\ _buffer' = buffer
    /\ call' = [op |-> op, args |-> <<>>, result |-> "ok"]
    /\ UNCHANGED <<environ, files, contexts, raising, journal>>

CallClear ==
    /\ ~is_empty(_buffer)
    /\ _buffer' = clear(_buffer)
    /\ call' = [op |-> "clear", args |-> <<>>, result |-> "ok"]
    /\ UNCHANGED <<environ, files, contexts, raising, journal>>

\* one call of write(overwrite); the journal has the mode of each
\* successful call
CallWrite(overwrite) ==
    LET r == write(_buffer, environ, files, overwrite)
    IN /\ r.result = "ok" => Len(journal[environ["GITHUB_STEP_SUMMARY"][1]]) < MaxWrites
       /\ _buffer' = r.buffer
       /\ files' = r.files
       /\ call' = [op |-> "write", args |-> <<overwrite>>, result |-> r.result]
       /\ journal' = IF r.result = "ok"
                     THEN [journal EXCEPT ![environ["GITHUB_STEP_SUMMARY"][1]] =
                                             Append(@, overwrite)]
                     ELSE journal
       /\ UNCHANGED <<environ, contexts, raising>>

\* an optional str argument is None, the empty str or a text
BuilderNext ==
    \/ \E text \in BuilderTexts, eol \in BOOLEAN :
          Adds("add_raw", add_raw(_buffer, text, eol))
             /\ UNCHANGED <<controllerVars, counterVars>>
    \/ Adds("add_eol", add_eol(_buffer)) /\ UNCHANGED <<controllerVars, counterVars>>
    \/ \E level \in {0, 2, 7} :
          Adds("add_heading", add_heading(_buffer, Arguments.markup, level))
             /\ UNCHANGED <<controllerVars, counterVars>>
    \/ Adds("add_separator", add_separator(_buffer)) /\ UNCHANGED <<controllerVars, counterVars>>
    \/ Adds("add_break", add_break(_buffer)) /\ UNCHANGED <<controllerVars, counterVars>>
    \/ \E cite \in {Absent, Some(EmptyText), Some(Arguments.markup)} :
          Adds("add_quote", add_quote(_buffer, Arguments.a, cite))
             /\ UNCHANGED <<controllerVars, counterVars>>
    \/ Adds("add_link", add_link(_buffer, Arguments.a, Arguments.markup))
          /\ UNCHANGED <<controllerVars, counterVars>>
    \/ \E lang \in {Absent, Some(EmptyText), Some(Arguments.a)} :
          Adds("add_code_block", add_code_block(_buffer, Arguments.markup, lang))
             /\ UNCHANGED <<controllerVars, counterVars>>
    \/ \E list \in {<<<<>>, FALSE>>, <<<<Arguments.a, Arguments.markup>>, TRUE>>} :
          Adds("add_list", add_list(_buffer, list[1], list[2]))
             /\ UNCHANGED <<controllerVars, counterVars>>
    \/ \E rows \in Arguments.rows :
          Adds("add_table", add_table(_buffer, rows))
             /\ UNCHANGED <<controllerVars, counterVars>>
    \/ Adds("add_details", add_details(_buffer, Arguments.a, Arguments.markup))
          /\ UNCHANGED <<controllerVars, counterVars>>
    \/ \E size \in {<<Absent, Absent>>, <<Some(EmptyText), Some(Arguments.a)>>,
                      <<Some(Arguments.a), Some(EmptyText)>>} :
          Adds("add_image", add_image(_buffer, Arguments.markup, Arguments.a, size[1], size[2]))
             /\ UNCHANGED <<controllerVars, counterVars>>
    \/ CallClear /\ UNCHANGED <<controllerVars, counterVars>>
    \/ \E overwrite \in BOOLEAN : CallWrite(overwrite) /\ UNCHANGED <<controllerVars, counterVars>>
    \/ \E v \in {"", "/f1"} :
          BodySets("GITHUB_STEP_SUMMARY", v) /\ UNCHANGED <<controllerVars, counterVars, builderVars>>
    \/ BodyDeletes("GITHUB_STEP_SUMMARY") /\ UNCHANGED <<controllerVars, counterVars, builderVars>>

BuilderSpec == IoInit /\ [][BuilderNext]_vars

(***************************************************************************)
(* Properties.                                                             *)
(***************************************************************************)
\* sub occurs in s
Contains(s, sub) ==
    \E k \in 1..(Len(s) - Len(sub) + 1) : SubSeq(s, k, k + Len(sub) - 1) = sub

IsInvoke(ev) == ev.e = "invoke"
IsRaise(ev) == ev.e = "raise"

\* the invocations a delivery made, in the order it made them
Invoked(events) == SelectSeq(events, IsInvoke)

\* the deliveries in progress and the ones just finished, by their events
EventLogs ==
    {stack[k].events : k \in Active("deliver")} \cup {done[k].events : k \in 1..Len(done)}

\* the application has just caught the CancellationRequested of a delivery
\* that arrived while the controller was enabled
CaughtWhileEnabled ==
    /\ stack = <<>>
    /\ done # <<>>
    /\ last.call = "deliver"
    /\ last.enabled
    /\ done[Len(done)].outcome = "raised"
    /\ done[Len(done)].fate = "application"

\* the step with which a call of enable_cancellation_support() returns
EnableReturns ==
    \/ BeginEnable /\ stack' = <<>>
    \/ EnableStep /\ Len(stack') < Len(stack)

\* the step with which a call of disable_cancellation_support() returns
DisableReturns ==
    \/ BeginDisable /\ stack' = <<>>
    \/ DisableStep /\ Len(stack') < Len(stack)

\* C1: Restoration exactness.  enable_cancellation_support() called while
\* Disabled and then disable_cancellation_support(), both run to their end,
\* leave every tracked signal with the disposition it had before the
\* enable, whatever that disposition was (default, ignored, a Python
\* callable, or None).
RestorationExactness ==
    [][(/\ DisableStep
        /\ Len(stack') < Len(stack)
        /\ Top.after.call = "enable"
        /\ ~Top.after.enabled)
          => disposition' = preEnable]_vars

\* C2: Idempotent enable.  Every enable that returns leaves
\* is_cancellation_enabled() true; an enable while Enabled leaves the
\* captured dispositions as the first call captured them (the table before
\* it); a disable after a repeated enable reinstalls the pre-enable
\* dispositions and never the controller's own handler.
IdempotentEnable ==
    [][/\ EnableReturns => _cancellation_registered'
       /\ (EnableStep /\ Len(stack') < Len(stack)) => _original_handlers' = preEnable
       /\ (BeginEnable /\ _cancellation_registered)
             => /\ stack' = <<>>
                /\ _original_handlers' = _original_handlers
       /\ (/\ DisableStep
           /\ Len(stack') < Len(stack)
           /\ Top.after.call = "enable"
           /\ Top.after.enabled)
             => /\ disposition' = preEnable
                /\ \A s \in Signals : disposition'[s] # _handle_cancellation_signal]_vars

\* what of the idempotent enable concerns the enable calls alone
EnableKeepsCaptures ==
    [][/\ EnableReturns => _cancellation_registered'
       /\ (EnableStep /\ Len(stack') < Len(stack)) => _original_handlers' = preEnable
       /\ (BeginEnable /\ _cancellation_registered)
             => /\ stack' = <<>>
                /\ _original_handlers' = _original_handlers]_vars

\* the k-th invocation of a delivery is of the k-th registry entry, and it
\* starts only after the (k-1)-th callback has returned or failed
InRegistrationOrder(events) ==
    LET inv == Invoked(events)
    IN /\ Len(inv) <= Len(_cancellation_handlers)
       /\ \A k \in 1..Len(inv) :
             /\ inv[k].pos = k
             /\ inv[k].text = _cancellation_handlers[k]
       /\ \A j \in 1..Len(events) :
             (IsInvoke(events[j]) /\ events[j].pos > 1)
                => \E m \in 1..(j - 1) :
                      /\ events[m].e \in {"return", "fault"}
                      /\ events[m].pos = events[j].pos - 1

\* Every delivery, finished or in progress, has invoked the handlers in
\* registration order, one after the other: its invocations are H1..Hk for
\* some k, each started after the previous callback returned or failed, and
\* a callback that is running was called by the delivery below it.
InvocationsInOrder ==
    /\ \A events \in EventLogs : InRegistrationOrder(events)
    /\ \A k \in Active("handler") :
          /\ k > 1
          /\ stack[k - 1].kind = "deliver"
          /\ stack[k - 1].i = stack[k].i
          /\ _cancellation_handlers[stack[k].i] = stack[k].h

\* C3: Ordering.  For any handlers H1..Hn registered in that order, a
\* delivery (here: one that no other delivery interrupts) invokes exactly
\* the sequence [H1, ..., Hn]: the invocations are in registration order,
\* no handler starts before the previous one has finished, and the finished
\* delivery has invoked all n of them.
Ordering ==
    /\ InvocationsInOrder
    /\ \A k \in 1..Len(done) :
          arrived = 1
             => [j \in 1..Len(Invoked(done[k].events)) |-> Invoked(done[k].events)[j].text]
                   = _cancellation_handlers

\* C4: Isolation.  Whatever faults the handlers raise, a delivery (here: one
\* that no other delivery interrupts) invokes every registered handler, lets
\* no handler's fault out, and ends by raising its CancellationRequested.
Isolation ==
    \A k \in 1..Len(done) :
        arrived = 1
           => /\ Len(Invoked(done[k].events)) = Len(_cancellation_handlers)
              /\ done[k].exc.cls = "CancellationRequested"
              /\ done[k].outcome = "raised"

\* C5: One drain-then-raise sequence per delivery while Enabled (here: a
\* delivery that no other delivery interrupts): every registry entry is
\* invoked exactly once, then exactly one CancellationRequested is raised as
\* the last thing the delivery does.
DrainThenRaise ==
    \A k \in 1..Len(done) :
        (arrived = 1 /\ last.enabled)
           => LET events == done[k].events
              IN /\ \A p \in 1..Len(_cancellation_handlers) :
                       Cardinality({j \in 1..Len(events) :
                                       IsInvoke(events[j]) /\ events[j].pos = p}) = 1
                 /\ Cardinality({j \in 1..Len(events) : IsRaise(events[j])}) = 1
                 /\ IsRaise(events[Len(events)])

\* C6: CancellationRequested always escapes.  The CancellationRequested a
\* delivery raises reaches application code and is never caught by the
\* handler-failure isolation of a delivery that is still draining.
CancellationEscapes ==
    \A k \in 1..Len(done) :
        done[k].outcome = "raised" => done[k].fate = "application"

\* C7: Idempotent disable.  disable_cancellation_support() while Disabled
\* returns at once and changes nothing: the flag stays false and the signal
\* table, the captured map and the registry are as before.
IdempotentDisable ==
    [][(BeginDisable /\ ~_cancellation_registered)
          => /\ stack' = <<>>
             /\ ~_cancellation_registered'
             /\ UNCHANGED <<disposition, _original_handlers, _cancellation_handlers>>]_vars

\* disable was called while Disabled, with handlers registered, and has
\* returned
IdempotentDisableWitness ==
    /\ stack = <<>>
    /\ last = [call |-> "disable", enabled |-> FALSE]
    /\ ~_cancellation_registered
    /\ _cancellation_handlers # <<>>

\* C8: A delivery does not disable the controller.  Once the application has
\* caught the CancellationRequested of a delivery made while Enabled, the
\* flag is still true, the captured dispositions are the pre-enable ones and
\* the delivery handler is installed for both signals; a disable called then
\* clears the flag and restores the pre-enable dispositions.
DeliveryKeepsEnabled ==
    [][/\ CaughtWhileEnabled
          => /\ _cancellation_registered
             /\ _original_handlers = preEnable
             /\ \A s \in Signals : disposition[s] = _handle_cancellation_signal
       /\ (/\ DisableStep
           /\ Len(stack') < Len(stack)
           /\ Top.after = [call |-> "deliver", enabled |-> TRUE, raised |-> TRUE])
          => /\ ~_cancellation_registered'
             /\ disposition' = preEnable]_vars

\* C9: Message contents.  The CancellationRequested of a delivery reads
\* "Operation cancelled by <NAME> signal" with the name of the delivered
\* signal: "TERM" occurs in it for SIGTERM and "INT" for SIGINT, and the
\* name of the other signal does not.
MessageContents ==
    \A k \in 1..Len(done) :
        done[k].outcome = "raised"
           => /\ done[k].signum = 15
                 => /\ done[k].exc.msg = "Operation cancelled by SIGTERM signal"
                    /\ Contains(done[k].exc.msg, "TERM")
                    /\ ~Contains(done[k].exc.msg, "INT")
              /\ done[k].signum = 2
                 => /\ done[k].exc.msg = "Operation cancelled by SIGINT signal"
                    /\ Contains(done[k].exc.msg, "INT")
                    /\ ~Contains(done[k].exc.msg, "TERM")

\* a SIGINT delivery that interrupted a SIGTERM delivery has raised
MessageContentsWitness ==
    /\ Len(done) = 2
    /\ done[1].outcome = "raised"
    /\ done[1].signum = 2
    /\ done[2].signum = 15

\* C10: Two states, none terminal.  The controller starts Disabled; in any
\* reachable state of the application a call of
\* enable_cancellation_support() that returns has made
\* is_cancellation_enabled() true and a call of
\* disable_cancellation_support() that returns has made it false.
TwoStateMachine ==
    /\ ~is_cancellation_enabled
    /\ [][/\ EnableReturns => _cancellation_registered'
          /\ DisableReturns => ~_cancellation_registered']_vars

\* a disable has taken the controller from Enabled back to Disabled
TwoStateMachineWitness ==
    /\ stack = <<>>
    /\ last = [call |-> "disable", enabled |-> TRUE]
    /\ ~is_cancellation_enabled
    /\ _cancellation_handlers # <<>>

\* Whatever the step (register, enable, disable, or any step of a signal
\* delivery), every handler registered so far keeps its position: the
\* registry before the step is a prefix of the registry after it.
RegistryKeepsPositions ==
    [][/\ Len(_cancellation_handlers') >= Len(_cancellation_handlers)
       /\ SubSeq(_cancellation_handlers', 1, Len(_cancellation_handlers))
             = _cancellation_handlers]_vars

\* C11: The registry is never cleared or shortened.  Over register,
\* enable, disable and signal deliveries, every handler registered so far
\* keeps its position (the registry before a step is a prefix of the
\* registry after it), across disable/enable cycles too; and a delivery
\* while Enabled invokes every handler that was registered in an earlier
\* enabled session, at the position it was registered at.
RegistryNeverShortened ==
    [][/\ Len(_cancellation_handlers') >= Len(_cancellation_handlers)
       /\ SubSeq(_cancellation_handlers', 1, Len(_cancellation_handlers))
             = _cancellation_handlers
       /\ (stack # <<>> /\ stack' = <<>> /\ done' # <<>> /\ last.enabled)
            => \A p \in 1..Len(era) :
                  era[p] = "earlier"
                     => \E k \in 1..Len(done') : \E j \in 1..Len(done'[k].events) :
                           done'[k].events[j]
                              = Event("invoke", p, _cancellation_handlers[p])]_vars

\* a delivery in a later enabled session has invoked a handler that was
\* registered in an earlier one
EarlierSessionHandlerInvoked ==
    /\ stack = <<>>
    /\ last = [call |-> "deliver", enabled |-> TRUE]
    /\ \E p \in 1..Len(era) :
          /\ era[p] = "earlier"
          /\ \E k \in 1..Len(done) : \E j \in 1..Len(done[k].events) :
                 done[k].events[j] = Event("invoke", p, _cancellation_handlers[p])

\* the callbacks a delivery invoked, in the order it invoked them
InvokedHandlers(events) == [k \in 1..Len(Invoked(events)) |-> Invoked(events)[k].text]

\* C12: A drain does not consume the registry.  When m signals have been
\* delivered one after another while the controller was enabled, with no
\* call of the application in between, the m-th delivery has invoked the
\* whole registry once, in registration order, and every registered handler
\* has run exactly m times.
DrainKeepsRegistry ==
    (/\ stack = <<>>
     /\ deliveries >= 1
     /\ last = [call |-> "deliver", enabled |-> TRUE])
       => /\ \A p \in 1..Len(_cancellation_handlers) : runs[p] = deliveries
          /\ \A k \in 1..Len(done) :
                InvokedHandlers(done[k].events) = _cancellation_handlers

\* the registry positions a callback occupies
Positions(handlers, h) == {p \in 1..Len(handlers) : handlers[p] = h}

\* the invocations of a callback that a delivery made
InvocationsOf(events, h) ==
    {k \in 1..Len(events) : events[k].e = "invoke" /\ events[k].text = h}

\* C13: No deduplication.  Each register_cancellation_handler(h) appends h,
\* whether or not h is registered already, so a callback registered k times
\* occupies k positions; and every delivery invokes it k times, once at each
\* of the positions at which it was registered.
NoDeduplication ==
    [][/\ \A h \in Handlers :
            SeqRegister(h)
               => /\ _cancellation_handlers' = Append(_cancellation_handlers, h)
                  /\ Cardinality(Positions(_cancellation_handlers', h))
                       = Cardinality(Positions(_cancellation_handlers, h)) + 1
       /\ (stack # <<>> /\ stack' = <<>> /\ done' # <<>>)
            => \A k \in 1..Len(done') : \A h \in Handlers :
                  /\ Cardinality(InvocationsOf(done'[k].events, h))
                       = Cardinality(Positions(_cancellation_handlers, h))
                  /\ {done'[k].events[j].pos : j \in InvocationsOf(done'[k].events, h)}
                       = Positions(_cancellation_handlers, h)]_vars

\* C14: register_cancellation_handler(h) changes only the registry.  In
\* either state it appends h at the end and leaves the enabled flag, the
\* captured dispositions and the signal table as they were; and the next
\* delivery while Enabled invokes the whole registry, the handlers
\* registered before the enable and the ones registered after it alike.
RegisterChangesRegistryOnly ==
    [][/\ \A h \in Handlers :
            SeqRegister(h)
               => /\ _cancellation_handlers' = Append(_cancellation_handlers, h)
                  /\ _cancellation_registered' = _cancellation_registered
                  /\ _original_handlers' = _original_handlers
                  /\ disposition' = disposition
       /\ (stack # <<>> /\ stack' = <<>> /\ done' # <<>> /\ last.enabled)
            => \A p \in 1..Len(_cancellation_handlers) :
                  \E k \in 1..Len(done') : \E j \in 1..Len(done'[k].events) :
                      done'[k].events[j] = Event("invoke", p, _cancellation_handlers[p])]_vars

\* the events of a delivery with one signal name written for another
Renamed(events, from, to) ==
    [k \in 1..Len(events) |-> [events[k] EXCEPT !.text = Replace(@, from, to)]]

\* the name a signal number is reported under
ReportedName(signum) == IF signum = 15 THEN "SIGTERM" ELSE "SIGINT"

\* two deliveries of different signals, one right after the other from the
\* same controller state, went the same way but for the signal's name
SameWayButForName ==
    (/\ stack = <<>>
     /\ deliveries = 2
     /\ Len(previous) = 1
     /\ Len(done) = 1
     /\ previous[1].signum # done[1].signum)
       => LET a == previous[1]
              b == done[1]
          IN /\ InvokedHandlers(a.events) = InvokedHandlers(b.events)
             /\ Renamed(a.events, ReportedName(a.signum), ReportedName(b.signum)) = b.events
             /\ a.events # b.events
             /\ a.outcome = b.outcome
             /\ a.exc.cls = b.exc.cls
             /\ Replace(a.exc.msg, ReportedName(a.signum), ReportedName(b.signum)) = b.exc.msg

\* C15: Both tracked signals take the same handling path.  From the same
\* controller state a SIGINT delivery and a SIGTERM delivery invoke the same
\* handlers in the same order and differ in nothing but the signal name of
\* the notice and of the message; every step of either leaves the controller
\* state as it was; and both raise CancellationRequested.
BothSignalsSamePath ==
    /\ []SameWayButForName
    /\ [][(Active("deliver") # {} \/ \E k \in 1..Len(stack') : stack'[k].kind = "deliver")
            => UNCHANGED <<_cancellation_handlers, _original_handlers,
                           _cancellation_registered, disposition>>]_vars
    /\ [](stack = <<>>
            => \A k \in 1..Len(done) :
                  /\ done[k].outcome = "raised"
                  /\ done[k].exc.cls = "CancellationRequested"
                  /\ done[k].exc.msg
                       = "Operation cancelled by " \o ReportedName(done[k].signum) \o " signal")

\* the deliveries in progress and the ones just finished: signal, events,
\* and where the delivery stands
DeliveryLogs ==
    {[signum |-> stack[k].signum, events |-> stack[k].events, pc |-> stack[k].pc] :
        k \in Active("deliver")}
       \cup {[signum |-> done[k].signum, events |-> done[k].events, pc |-> "over"] :
                k \in 1..Len(done)}

\* the places of the events of one kind in a log
EventsOfKind(events, e) == {j \in 1..Len(events) : events[j].e = e}

StartsWith(s, prefix) == Len(s) >= Len(prefix) /\ SubSeq(s, 1, Len(prefix)) = prefix

\* C16: Diagnostics per delivery.  The first thing a delivery does is to
\* send the sink one line that names the signal and announces the shutdown.
\* After that the sink gets one warning line for each handler that failed,
\* right after the failure (so before the next handler is invoked and before
\* CancellationRequested is raised), and no line for a handler that
\* returned: nothing else reaches the sink.  A delivery that has not got to
\* its first line has done nothing, and only a delivery that stands in its
\* except clause has a failure it has not reported yet.
DiagnosticsPerDelivery ==
    \A d \in DeliveryLogs :
        LET ev == d.events
            pending == IF d.pc \in {"notice", "warn"} THEN 1 ELSE 0
        IN /\ d.pc = "notice" <=> ev = <<>>
           /\ ev # <<>>
                 => ev[1] = Event("sink", 0,
                       "Received " \o ReportedName(d.signum) \o " signal. Initiating graceful shutdown...")
           /\ \A j \in EventsOfKind(ev, "fault") :
                 (j = Len(ev) /\ d.pc = "warn")
                 \/ /\ j < Len(ev)
                    /\ ev[j + 1].e = "sink"
                    /\ ev[j + 1].pos = ev[j].pos
                    /\ StartsWith(ev[j + 1].text, "Error in cancellation handler: ")
           /\ \A j \in EventsOfKind(ev, "return") :
                 j < Len(ev) => ev[j + 1].e # "sink"
           /\ Cardinality(EventsOfKind(ev, "sink")) + pending
                = 1 + Cardinality(EventsOfKind(ev, "fault"))

\* C17: CancellationRequested belongs to the toolkit's exception hierarchy.
\* The exception a signal delivery raises into the application is of a class
\* that the exceptions module provides and that derives from
\* GitHubActionError, so that `except GitHubActionError` catches it.
CancellationInHierarchy ==
    \A k \in 1..Len(done) :
        (done[k].outcome = "raised" /\ done[k].fate = "application")
           => /\ done[k].exc.cls = "CancellationRequested"
              /\ done[k].exc.cls \in ExceptionsModule
              /\ IsSubclass(done[k].exc.cls, "GitHubActionError")

\* C18: with_env scoping.  On entry every named variable has the given
\* value.  When the block ends, by its body finishing or by an exception the
\* body raised (CancellationRequested included), every named variable has
\* the value it had before entry, or is absent if it was absent then,
\* whatever the body did to it; nested blocks naming the same variable
\* included.
WithEnvScoping ==
    [][/\ Len(contexts') > Len(contexts)
            => LET c == contexts'[Len(contexts')]
               IN /\ \A n \in DOMAIN c.env_vars : c.before[n] = environ[n]
                  /\ \A n \in DOMAIN c.env_vars : environ'[n] = Some(c.env_vars[n])
       /\ Len(contexts') < Len(contexts)
            => LET c == contexts[Len(contexts)]
               IN \A n \in DOMAIN c.env_vars : environ'[n] = c.before[n]]_vars

\* a nested block naming X has just been left by a CancellationRequested,
\* its body having changed X, and X is back to the value the enclosing block
\* gave it, which names X too
WithEnvScopingWitness ==
    /\ call.op = "with_env"
    /\ call.result = "CancellationRequested"
    /\ "X" \in call.args[1]
    /\ call.args[2]
    /\ raising = Some("CancellationRequested")
    /\ contexts # <<>>
    /\ "X" \in DOMAIN contexts[Len(contexts)].env_vars
    /\ environ["X"] = Some(contexts[Len(contexts)].env_vars["X"])
    /\ environ["X"] # contexts[Len(contexts)].before["X"]

\* what stands between the name and the value of a record, and after the
\* value
AfterName == Str("<<__ENV_DELIMITER__\n")
AfterValue == Str("\n__ENV_DELIMITER__\n")

\* the records of a journal, one after the other, as the claim writes them
RECURSIVE RecordsText(_)
RecordsText(entries) ==
    IF entries = <<>> THEN <<>>
    ELSE entries[1][1] \o AfterName \o entries[1][2] \o AfterValue
            \o RecordsText(Tail(entries))

\* each file holds the records written to it, in call order
FilesHoldRecords ==
    \A p \in Paths :
       /\ ContentOf(files[p]) = RecordsText(journal[p])
       /\ journal[p] # <<>> => files[p] # Absent

\* C19: set_output, save_state and set_env are append-only.  A call whose
\* variable (GITHUB_OUTPUT, GITHUB_STATE, GITHUB_ENV) names a file succeeds
\* and appends one record name<<DELIMITER / value / DELIMITER to that file
\* and touches no other; so each file always holds the records written to
\* it, in call order, those that to_env_file appended among them.  A call
\* whose variable is unset or empty raises EnvironmentError and leaves every
\* file as it was, none created.
CommandFilesAppendOnly ==
    /\ FilesHoldRecords
    /\ [][FilesHoldRecords']_vars
    /\ [][(call'.op \in CommandFunctions /\ environ' = environ)
             => LET variable == environ[VariableOf(call'.op)]
                IN IF variable \in {Absent, Some("")}
                   THEN /\ call'.result = "EnvironmentError"
                        /\ files' = files
                   ELSE /\ call'.result = "ok"
                        /\ files'[variable[1]]
                             = Some(ContentOf(files[variable[1]]) \o RecordsText(<<call'.args>>))
                        /\ \A q \in Paths \ {variable[1]} : files'[q] = files[q]]_vars

\* a file holds two records, and the call that followed them found its
\* variable empty, raised EnvironmentError and created no file
CommandFilesAppendOnlyWitness ==
    /\ call.op \in CommandFunctions
    /\ call.result = "EnvironmentError"
    /\ environ[VariableOf(call.op)] = Some("")
    /\ files["/f1"] = Some(Str("test<<__ENV_DELIMITER__\ntest\n__ENV_DELIMITER__\n")
                              \o Str("another<<__ENV_DELIMITER__\n2\n__ENV_DELIMITER__\n"))
    /\ files["/f2"] = Absent

\* texts one after the other, each terminated by a newline
RECURSIVE TextLines(_)
TextLines(texts) ==
    IF texts = <<>> THEN <<>> ELSE texts[1] \o <<10>> \o TextLines(Tail(texts))

\* what the three texts of the model read as once %25, %0D and %0A are
\* decoded
DecodedText(text) ==
    CASE text = <<45, 32, 80, 111, 105, 110, 116, 32, 49>>      \* - Point 1
           -> <<45, 32, 80, 111, 105, 110, 116, 32, 49>>
      [] text = <<49, 48, 48, 37, 50, 53>>                        \* 100%25
           -> <<49, 48, 48, 37>>                                  \* 100%
      [] text = <<97, 37, 48, 68, 98, 37, 48, 65>>                \* a%0Db%0A
           -> <<97, 13, 98, 10>>                                  \* a, CR, b, LF

DecodedTexts(texts) == [k \in 1..Len(texts) |-> DecodedText(texts[k])]

\* remove_job_summary() deletes the file the variable names, touches no
\* other file, and returns normally also when there is no such file or no
\* such variable
RemoveIsSilent ==
    [][(call'.op = "remove_job_summary" /\ environ' = environ)
          => /\ call'.result = "ok"
             /\ \A p \in Paths :
                   files'[p] = IF SummaryPath = Some(p) THEN Absent ELSE files[p]]_vars

\* C20 as stated: after any sequence of append_job_summary,
\* overwrite_job_summary and remove_job_summary calls the summary file holds
\* exactly the text of the latest overwrite since the last remove, if any,
\* followed by the texts of the appends made after it, each terminated by a
\* newline, in call order; remove_job_summary deletes the file and is a
\* silent no-op when the file or the variable is missing.
SummaryFileIsLogOfTexts ==
    /\ [](\A p \in Paths :
             files[p] = IF journal[p] = <<>> THEN Absent ELSE Some(TextLines(journal[p])))
    /\ RemoveIsSilent

\* C20 as amended: the same, with each text as it reads once
\* _clean_markdown_string has decoded %25, %0D and %0A in it.
SummaryFileIsLog ==
    /\ [](\A p \in Paths :
             files[p] = IF journal[p] = <<>> THEN Absent
                        ELSE Some(TextLines(DecodedTexts(journal[p]))))
    /\ RemoveIsSilent

\* two texts make up a file, decoded, and the remove that followed found the
\* variable unset and did nothing
SummaryFileIsLogWitness ==
    /\ call.op = "remove_job_summary"
    /\ environ["GITHUB_STEP_SUMMARY"] = Absent
    /\ journal["/f1"] = <<Str("a%0Db%0A"), Str("100%25")>>
    /\ files["/f1"] = Some(Str("a\rb\n\n100%\n"))

\* the dict that maps each name of the entries to the value of its latest entry
RECURSIVE LatestValues(_)
LatestValues(entries) ==
    IF entries = <<>> THEN NoVariables
    ELSE DictSet(LatestValues(SubSeq(entries, 1, Len(entries) - 1)),
                 entries[Len(entries)][1], entries[Len(entries)][2])

\* C21: set_env / get_workflow_environment_variables round trip.  After any
\* sequence of set_env calls into a file that was empty before them,
\* get_workflow_environment_variables returns a mapping whose keys are the
\* names set and that maps each name to the value most recently set for it.
\* The records that to_env_file appended to the file count as set like those
\* of set_env.
RoundTrip ==
    (call.op = "get_workflow_environment_variables" /\ call.result = "ok")
       => call.value = LatestValues(journal[call.file])

\* C22: State invariant at operation boundaries.  After any sequence of
\* completed register, enable, disable and delivery operations, each over
\* before the next one starts, the enabled flag is true exactly if the map
\* of captured dispositions has an entry for SIGTERM and one for SIGINT, and
\* the map is empty when the flag is false: it is never partially populated.
StateInvariantAtBoundaries ==
    stack = <<>>
       => /\ _cancellation_registered <=> DOMAIN _original_handlers = Signals
          /\ ~_cancellation_registered => _original_handlers = EmptyDict
          /\ DOMAIN _original_handlers \in {{}, Signals}

\* the application has caught the cancellation of a delivery, the controller
\* being enabled with both captures, of two different dispositions
StateInvariantAtBoundariesWitness ==
    /\ stack = <<>>
    /\ done # <<>>
    /\ done[Len(done)].fate = "application"
    /\ _cancellation_registered
    /\ DOMAIN _original_handlers = Signals
    /\ preEnable # [s \in Signals |-> preEnable[SIGTERM]]

\* C23: While Enabled the controller owns both signal slots.  In every state
\* in which the application finds is_cancellation_enabled() true, the
\* disposition installed for SIGTERM and the one installed for SIGINT are
\* both the controller's delivery handler, so that either signal starts a
\* drain.
EnabledOwnsBothSlots ==
    (stack = <<>> /\ is_cancellation_enabled)
       => \A signum \in Signals : disposition[signum] = _handle_cancellation_signal

\* C24: While Disabled the controller intercepts nothing.  In every state
\* in which the application finds is_cancellation_enabled() false, whatever
\* the dispositions were before the enable, the controller's delivery
\* handler is installed for neither SIGTERM nor SIGINT, and no delivery
\* starts in that state: no registered handler is invoked and no
\* CancellationRequested is raised.
DisabledInterceptsNothing ==
    /\ []((stack = <<>> /\ ~is_cancellation_enabled)
            => \A signum \in Signals : disposition[signum] # _handle_cancellation_signal)
    /\ [][(~is_cancellation_enabled /\ stack = <<>>)
            => \A k \in 1..Len(stack') : stack'[k].kind # "deliver"]_vars

\* C25: The captured original disposition is never the controller's own
\* delivery handler.  Over any sequence of enable / disable cycles, starting
\* from dispositions that are not the controller's handler (None included),
\* no entry of the map of captured dispositions equals the controller's
\* delivery handler.
CaptureNeverOwnHandler ==
    \A signum \in DOMAIN _original_handlers :
        _original_handlers[signum] # _handle_cancellation_signal

\* C26: No lock is needed under single-threaded signal delivery.  With a
\* tracked signal delivered at any point of the main flow, between the
\* statements of enable_cancellation_support() and of
\* disable_cancellation_support() too, the state the application is left
\* in satisfies the state-machine invariants (the flag is true exactly if
\* both dispositions are captured, the map is empty when Disabled); and a
\* disable that runs to its end restores what the process had before the
\* controller was enabled, which is never the controller's own handler.
StepwiseKeepsInvariants ==
    /\ [](stack = <<>>
            => /\ _cancellation_registered <=> DOMAIN _original_handlers = Signals
               /\ ~_cancellation_registered => _original_handlers = EmptyDict)
    /\ [][(DisableStep /\ Len(stack') < Len(stack))
             => \A signum \in Signals : disposition'[signum] # _handle_cancellation_signal]_vars

\* no entry of the registry is a callback that registers itself
NoneRegistersItself ==
    \A p \in 1..Len(_cancellation_handlers) : _cancellation_handlers[p] # "registersSelf"

\* C27: Every delivery terminates in a cancellation.  Each callback of the
\* model returns or raises after at most one call of
\* register_cancellation_handler.  Every delivery of a tracked signal
\* while the controller is enabled eventually finishes its drain and raises
\* CancellationRequested into the application, also when callbacks call
\* register_cancellation_handler while the drain is running (here: the
\* callbacks they register register nothing themselves, so that the drain
\* has finitely many callbacks to invoke).
DeliveryEndsInCancellation ==
    (Active("deliver") # {} /\ NoneRegistersItself)
       ~> (/\ stack = <<>>
           /\ done # <<>>
           /\ done[Len(done)].outcome = "raised"
           /\ done[Len(done)].fate = "application")

\* While every entry of the registry is a callback that registers itself,
\* the loop of line 35 stands behind the end of the list whenever it is
\* about to look for its next element: line 41 is not reached.
SelfRegisteringLoopStaysBehind ==
    (/\ stack # <<>>
     /\ Top.kind = "deliver"
     /\ Top.pc \in {"loop", "try"}
     /\ _cancellation_handlers # <<>>
     /\ \A p \in 1..Len(_cancellation_handlers) : _cancellation_handlers[p] = "registersSelf")
       => Top.i < Len(_cancellation_handlers)

\* C28: Registration during a drain.  A callback that a running handler
\* registers with register_cancellation_handler while a drain is in
\* progress is invoked in that same drain, after every callback that was
\* registered before it, and before CancellationRequested is raised.
RegisteredDuringDrainIsInvoked ==
    \A k \in 1..Len(done) :
        LET ev == done[k].events
        IN \A r \in EventsOfKind(ev, "register") :
              \E j \in EventsOfKind(ev, "invoke") :
                 /\ j > r
                 /\ ev[j].pos = ev[r].pos
                 /\ ev[j].text = ev[r].text
                 /\ \A p \in 1..(ev[r].pos - 1) :
                       \E b \in EventsOfKind(ev, "invoke") : b < j /\ ev[b].pos = p
                 /\ \E x \in EventsOfKind(ev, "raise") : j < x

\* the controller calls the callbacks of a delivery made, in order
ControllerCalls(events) ==
    SelectSeq(events, LAMBDA ev : ev.e \in {"disable", "enable"})

\* C29: Controller calls from inside a handler do not disturb the drain.
\* When a registered handler has called disable_cancellation_support() or
\* enable_cancellation_support() during a drain, that drain still invokes
\* every registered handler in registration order and raises
\* CancellationRequested into the application; and if the latest of these
\* calls was a disable, the controller is Disabled with the pre-enable
\* dispositions installed when the cancellation reaches the application.
ControllerCallsKeepDrain ==
    \A k \in 1..Len(done) :
        LET calls == ControllerCalls(done[k].events)
        IN calls # <<>>
              => /\ InvokedHandlers(done[k].events) = _cancellation_handlers
                 /\ done[k].outcome = "raised"
                 /\ done[k].fate = "application"
                 /\ calls[Len(calls)].e = "disable"
                       => /\ ~is_cancellation_enabled
                          /\ disposition = preEnable

\* C30: JobSummary.write is all-or-nothing on its buffer.  With a summary
\* file that can be written, write() raises exactly when the content is
\* larger than one MiB or GITHUB_STEP_SUMMARY is unset or empty, and then
\* the buffer and the files are unchanged.  When it
\* succeeds, the file holds the buffered content, appended to what it held
\* or replacing it when overwrite is true, no other file has changed and
\* the buffer is empty; a write() repeated right after a successful one adds
\* nothing to the file.
WriteAllOrNothing ==
    [][(call'.op = "write" /\ environ' = environ)
          => LET content == stringify(_buffer)
                 overwrite == call'.args[1]
                 unset == environ["GITHUB_STEP_SUMMARY"] \in {Absent, Some("")}
             IN /\ call'.result # "ok"
                     <=> (EncodedLength(content) > 1048576 \/ unset)
                /\ call'.result # "ok" => (_buffer' = _buffer /\ files' = files)
                /\ call'.result = "ok"
                     => LET p == environ["GITHUB_STEP_SUMMARY"][1]
                        IN /\ files'[p] = Some(IF overwrite
                                               THEN content
                                               ELSE Concat(TextOf(files[p]), content))
                           /\ \A q \in Paths \ {p} : files'[q] = files[q]
                           /\ is_empty(_buffer')
                           /\ (call.op = "write" /\ call.result = "ok")
                                 => /\ content = EmptyText
                                    /\ EncodedLength(TextOf(files'[p]))
                                          <= EncodedLength(TextOf(files[p]))
                                    /\ ~overwrite => TextOf(files'[p]) = TextOf(files[p])]_vars

\* write() has just raised for a buffer of one MiB and one byte, the summary
\* file holding what an earlier write() put there
WriteAllOrNothingWitness ==
    /\ call.op = "write"
    /\ call.result = "ValueError"
    /\ EncodedLength(stringify(_buffer)) = MAX_SUMMARY_SIZE + 1
    /\ environ["GITHUB_STEP_SUMMARY"] = Some("/f1")
    /\ files["/f1"] # Absent
    /\ TextOf(files["/f1"]) # EmptyText


=============================================================================
